---- MODULE Spec2Model ----
(***************************************************************************)
(* Tapis OAuth2 login for WebODM: the authorization-code flow with its     *)
(* state store (app/api/tapis_oauth2.py, app/models/oauth2.py), the JWT    *)
(* decoding backend (app/auth/tapis_oauth2.py) and the token store.        *)
(*                                                                         *)
(* Python values are tagged records [k |-> kind, ...] so that None,        *)
(* strings, numbers, lists and objects can be told apart.  A string that   *)
(* is handed to str.split('.') is represented by the list of its           *)
(* dot-separated segments (split/join is a bijection between strings and   *)
(* non-empty lists of dot-free strings).                                    *)
(***************************************************************************)
EXTENDS Integers, Sequences, FiniteSets, TLC

(***************************************************************************)
(* Bounds of the model                                                     *)
(***************************************************************************)
\* unix time (seconds) read by time.time() in the decoder ranges over 1..MaxUnixTime
MaxUnixTime == 2
\* largest number of dot-separated segments of an access token string
MaxSegments == 4
\* callback requests that can be in progress at once
NumCallbacks == 2
\* authorize requests that get a state value: with concurrent workers, and
\* with one worker
MaxStates == 1
SeqMaxStates == 2
\* the clock runs from 0 to MaxTime minutes
MaxTime == 11
\* the clock of the discovery cooldown runs from 0 to DiscMaxHours hours
DiscMaxHours == 2
\* authorize requests that get a state value while discovery is triggered
DiscMaxStates == 1
\* discovery passes run one after the other outside a login
MaxScanRuns == 2
\* primary keys the token table hands out
MaxTokenPk == 3
\* authorize requests that get a state value while tokens are refreshed and
\* revoked
TokMaxStates == 1

(***************************************************************************)
(* Python values                                                           *)
(***************************************************************************)
PyNone == [k |-> "none"]
PyStr(s) == [k |-> "str", s |-> s]
PyInt(n) == [k |-> "int", n |-> n]
PyBool(b) == [k |-> "bool", b |-> b]
\* the dict {}
PyEmptyDict == [k |-> "emptydict"]
\* a non-empty list: sliceable, truthy, has neither .split nor .keys
PyList == [k |-> "list"]
\* a string whose characters matter: the sequence of its characters
PyText(chars) == [k |-> "text", chars |-> chars]
\* a string that is split on '.': the list of its segments (never empty)
TokStr(segs) == [k |-> "tstr", segs |-> segs]
\* the segment '' ; the empty string is TokStr(<<SegEmpty>>)
SegEmpty == [k |-> "empty"]
EmptyStr == TokStr(<<SegEmpty>>)

\* bool(v) of Python, for the values of the model
Truthy(v) ==
  CASE v.k = "none" -> FALSE
    [] v.k = "str"  -> v.s # ""
    [] v.k = "int"  -> v.n # 0
    [] v.k = "bool" -> v.b
    [] v.k = "text" -> v.chars # <<>>
    [] v.k = "tstr" -> v.segs # <<SegEmpty>>
    [] v.k = "emptydict" -> FALSE
    [] OTHER        -> TRUE

\* a or b of Python
PyOr(a, b) == IF Truthy(a) THEN a ELSE b

(***************************************************************************)
(* JWT decoding: TapisOAuth2Backend._validate_token_with_tapis             *)
(***************************************************************************)
Usernames == {"alice", "bob"}

\* values a string-valued claim of the payload can take; PyNone is what
\* payload.get(key) returns for an absent key (and for a JSON null)
ClaimValues == {PyNone, PyStr("")} \cup {PyStr(u) : u \in Usernames}

\* values of the exp claim: absent, integers around the clock, a non-number
ExpValues == {PyNone, PyStr("soon")} \cup {PyInt(n) : n \in -1..(MaxUnixTime + 1)}

EmailValues == {PyNone, PyStr("a@x"), PyStr("b@x")}

\* JSON objects a payload can decode to (the claims the backend reads)
Payloads ==
  [k : {"obj"}, tapis_username : ClaimValues, username : ClaimValues,
   sub : ClaimValues, exp : ExpValues, email : EmailValues]

\* What the second segment turns out to be when it is padded, passed to
\* base64.urlsafe_b64decode, decoded as UTF-8 and parsed as JSON.
SegBadBase64 == [k |-> "badb64"]
SegNotUtf8   == [k |-> "notutf8"]
SegNotJson   == [k |-> "notjson"]
SegJson(v)   == [k |-> "json", v |-> v]
\* a segment whose content is never looked at (header, signature)
SegOpaque    == [k |-> "opaque"]

Exc(e) == [k |-> "exc", e |-> e]
Ok(v)  == [k |-> "ok", v |-> v]

\* base64.urlsafe_b64decode(payload_b64) then json.loads(bytes.decode('utf-8'))
DecodePayload(seg) ==
  CASE seg.k = "badb64"  -> Exc("binascii.Error")
    [] seg.k = "notutf8" -> Exc("UnicodeDecodeError")
    [] seg.k = "notjson" -> Exc("JSONDecodeError")
    [] seg.k = "opaque"  -> Exc("JSONDecodeError")
    [] seg.k = "empty"   -> Exc("JSONDecodeError")
    [] OTHER             -> Ok(seg.v)

\* the exceptions the inner handler names
InnerCaught == {"binascii.Error", "JSONDecodeError", "UnicodeDecodeError"}

\* exp and current_time > exp
ExpiredCheck(exp, current_time) ==
  IF ~Truthy(exp) THEN Ok(FALSE)
  ELSE IF exp.k = "int" THEN Ok(current_time > exp.n)
  ELSE Exc("TypeError")

\* payload.get('tapis/username') or payload.get('username') or payload.get('sub')
UsernameOf(payload) ==
  PyOr(PyOr(payload.tapis_username, payload.username), payload.sub)

UserInfo(payload) ==
  [k |-> "info", username |-> UsernameOf(payload), sub |-> payload.sub,
   exp |-> payload.exp, email |-> payload.email]

\* the body of the inner try, after the payload segment has been decoded
ClaimsToInfo(payload, current_time) ==
  IF payload.k # "obj" THEN Exc("AttributeError")
  ELSE LET ex == ExpiredCheck(payload.exp, current_time) IN
       IF ex.k = "exc" THEN ex
       ELSE IF ex.v THEN Ok(PyNone)
       ELSE IF ~Truthy(UsernameOf(payload)) THEN Ok(PyNone)
       ELSE Ok(UserInfo(payload))

\* the inner try/except: decoding errors are caught, anything else goes on
InnerTry(seg, current_time) ==
  LET d == DecodePayload(seg) IN
  IF d.k = "exc"
    THEN IF d.e \in InnerCaught THEN Ok(PyNone) ELSE d
    ELSE ClaimsToInfo(d.v, current_time)

\* the body of the outer try
ValidateBodyMutant(access_token, current_time) ==
  IF access_token.k # "tstr" THEN Exc("AttributeError")
  ELSE IF Len(access_token.segs) < 2 THEN Ok(PyNone)
  ELSE InnerTry(access_token.segs[2], current_time)
ValidateBody(access_token, current_time) ==
  IF access_token.k # "tstr" THEN Exc("AttributeError")
  ELSE IF Len(access_token.segs) # 3 THEN Ok(PyNone)
  ELSE InnerTry(access_token.segs[2], current_time)

\* the outer handler: except Exception -> None
OuterCatch(r) == IF r.k = "exc" THEN Ok(PyNone) ELSE r

validate_token_with_tapis(access_token, current_time) ==
  OuterCatch(ValidateBody(access_token, current_time))

(***************************************************************************)
(* The user table and TapisOAuth2Backend.authenticate                      *)
(***************************************************************************)
\* django.contrib.auth User rows: username is unique
UserRow(u, e) == [username |-> u, email |-> e]

HasUser(tbl, u) == \E r \in tbl : r.username = u
GetUser(tbl, u) == CHOOSE r \in tbl : r.username = u

\* '' for None: what create_user stores for a missing e-mail
EmailText(e) == IF e.k = "str" THEN e.s ELSE ""

\* _update_user_info: the e-mail is overwritten when given and different
update_user_info(tbl, u, info) ==
  LET old == GetUser(tbl, u) IN
  IF Truthy(info.email) /\ old.email # EmailText(info.email)
    THEN (tbl \ {old}) \cup {UserRow(u, EmailText(info.email))}
    ELSE tbl

\* _create_user_from_tapis_info
create_user_from_tapis_info(tbl, info) ==
  tbl \cup {UserRow(info.username.s, EmailText(info.email))}

\* _get_or_create_user: the table afterwards (the user returned is username)
get_or_create_user(tbl, info) ==
  IF HasUser(tbl, info.username.s)
    THEN update_user_info(tbl, info.username.s, info)
    ELSE create_user_from_tapis_info(tbl, info)

\* authenticate: [user |-> the user's name or PyNone, users |-> the table]
AuthResult(user, tbl) == [user |-> user, users |-> tbl]

authenticate(tbl, conf, access_token, current_time) ==
  IF ~Truthy(access_token) THEN AuthResult(PyNone, tbl)
  ELSE IF ~conf THEN AuthResult(PyNone, tbl)
  ELSE LET r == validate_token_with_tapis(access_token, current_time) IN
       IF r.k = "exc" THEN AuthResult(PyNone, tbl)
       ELSE IF ~Truthy(r.v) THEN AuthResult(PyNone, tbl)
       ELSE AuthResult(PyStr(r.v.username.s), get_or_create_user(tbl, r.v))

(***************************************************************************)
(* Registered OAuth2 clients (TapisOAuth2Client rows)                      *)
(***************************************************************************)
ActiveClientIds   == {"demo"}
InactiveClientIds == {"old"}
\* client identifiers a request can name: registered ones and an unknown one
RequestClientIds  == ActiveClientIds \cup InactiveClientIds \cup {"nope"}

\* get_object_or_404(TapisOAuth2Client, client_id=client_id, is_active=True)
ClientFound(client_id) == client_id \in ActiveClientIds

(***************************************************************************)
(* The state store (TapisOAuth2State rows)                                 *)
(***************************************************************************)
\* timedelta(minutes=10): the clock of the model counts minutes
StateTTL == 10

StateRow(s, c, r, t, e) ==
  [state |-> s, client |-> c, redirect_after_auth |-> r, created_at |-> t,
   expires_at |-> e]

\* TapisOAuth2State.is_expired at clock t
is_expired(row, t) == t > row.expires_at

\* TapisOAuth2State.objects.get(state=state): the rows that match
StateMatches(rows, s) == {r \in rows : r.state = s}

DefaultRedirect == "/dashboard/"

\* request.GET.get('redirect_after', '/dashboard/')
RedirectAfter(param) == IF param.k = "none" THEN DefaultRedirect ELSE param.s

(***************************************************************************)
(* The token payload of the provider                                       *)
(***************************************************************************)
\* a key that the object does not have
PyAbsent == [k |-> "absent"]
\* a dict with an 'access_token' key / without one
Nested(inner) == [k |-> "dict", has |-> TRUE, access_token |-> inner]
DictNoKey     == [k |-> "dict", has |-> FALSE]

ClaimsFor(u) ==
  [k |-> "obj", tapis_username |-> PyNone, username |-> PyStr(u), sub |-> PyNone,
   exp |-> PyNone, email |-> PyNone]
\* header.payload.signature whose payload names user u
JwtFor(u) == TokStr(<<SegOpaque, SegJson(ClaimsFor(u)), SegOpaque>>)
\* a token string of two segments
TwoSegJwt == TokStr(<<SegOpaque, SegJson(ClaimsFor("alice"))>>)

\* the unwrapped 'result' of the token endpoint; only access_token is read
\* before _store_user_tokens
TokenData(at) == [k |-> "obj", access_token |-> at]

\* 'access_token' in d
HasAccessToken(d) == d.k = "dict" /\ d.has

\* x[:50]: strings and lists can be sliced; a dict raises TypeError before
\* Python 3.12 and KeyError from 3.12 on; anything else raises TypeError
SliceOutcomes(x) ==
  CASE x.k = "tstr" -> {"ok"}
    [] x.k = "list" -> {"ok"}
    [] x.k = "dict" -> {"TypeError", "KeyError"}
    [] OTHER        -> {"TypeError"}

(***************************************************************************)
(* The token store (TapisOAuth2Token rows)                                 *)
(***************************************************************************)
\* token_data.get('token_type', 'Bearer') of a token response without the key
DefaultTokenType == PyStr("Bearer")

\* a TapisOAuth2Token row; token_type is 'Bearer' until a refresh sets it
TokenRow(pk, u, c, at, rt, e) ==
  [pk |-> pk, user |-> u, client |-> c, access_token |-> at,
   refresh_token |-> rt, token_type |-> DefaultTokenType, expires_at |-> e]

\* TapisOAuth2Token.objects.get(user=user, client=client): the rows that match
TokenMatches(rows, u, c) == {r \in rows : r.user = u /\ r.client = c}

NoTime == [k |-> "none"]
At(t)  == [k |-> "time", t |-> t]

\* timezone.now() + timedelta(seconds=int(expires_in)) if expires_in else None
\* (60 seconds to the minute of the clock)
ExpiresAt(expires_in, t) ==
  IF Truthy(expires_in) THEN At(t + (expires_in.n \div 60)) ELSE NoTime

\* token_data.get('refresh_token', '')
RefreshOf(rt) == IF rt.k = "absent" THEN PyStr("") ELSE rt

\* TapisOAuth2Token.is_expired at clock t
token_is_expiredMutant(row, t) == FALSE
token_is_expired(row, t) ==
  IF row.expires_at.k = "none" THEN FALSE ELSE t > row.expires_at.t

\* TapisOAuth2Token.is_valid at clock t: self.access_token and not self.is_expired
\* (the value of the expression: the access token itself when it is falsy)
is_valid(row, t) ==
  IF ~Truthy(row.access_token) THEN row.access_token
  ELSE PyBool(~token_is_expired(row, t))

\* the UniqueConstraint on (user, client): may row r be inserted into rows?
UniqueUserClientMutant(rows, r) == TRUE
UniqueUserClient(rows, r) == TokenMatches(rows, r.user, r.client) = {}

(***************************************************************************)
(* Text: a string whose characters matter is the sequence of its           *)
(* characters                                                              *)
(***************************************************************************)
\* str.lower() on the characters of the model
LowerChar(c) ==
  CASE c = "A" -> "a" [] c = "B" -> "b" [] c = "J" -> "j" [] c = "P" -> "p"
    [] c = "G" -> "g" [] c = "E" -> "e" [] OTHER -> c
Lower(str) == [i \in 1..Len(str) |-> LowerChar(str[i])]

\* str.endswith(suffix)
EndsWith(str, suffix) ==
  /\ Len(suffix) <= Len(str)
  /\ SubSeq(str, Len(str) - Len(suffix) + 1, Len(str)) = suffix

\* sub in str
Contains(str, sub) ==
  \E i \in 0..(Len(str) - Len(sub)) : SubSeq(str, i + 1, i + Len(sub)) = sub

\* tags__icontains=sub
IContains(str, sub) == Contains(Lower(str), Lower(sub))

DotJpg  == <<".", "j", "p", "g">>
DotJpeg == <<".", "j", "p", "e", "g">>
Comma   == <<",">>
\* 'tapis,flight,'
TapisFlightPrefix ==
  <<"t", "a", "p", "i", "s", ",", "f", "l", "i", "g", "h", "t", ",">>
\* 'images'
ImagesName == <<"i", "m", "a", "g", "e", "s">>

(***************************************************************************)
(* The Discovery Scanner and the Project Materializer:                     *)
(* TapisStorageService and TapisFlightDiscoveryService                     *)
(***************************************************************************)
\* what a remote call gives: a listing, or nothing when it raised
\* (requests.RequestException)
Fail == [ok |-> FALSE]
Listing(items) == [ok |-> TRUE, items |-> items]

\* an entry of a files listing: name is a text
Entry(type, name) == [type |-> type, name |-> name]

\* a top-level entry of a system with what the listings of <name>/code/ and
\* <name>/code/images/ return; name is a text or PyNone
TopEntry(type, name, code, images) ==
  [type |-> type, name |-> name, code |-> code, images |-> images]

\* an element of the systems query: id is a text or PyNone, root is what the
\* listing of the system's root returns
System(id, root) == [id |-> id, root |-> root]

\* lines 135-137: the number of entries that are files named *.jpg or *.jpeg
RECURSIVE JpgCount(_)
JpgCount(listing) ==
  IF listing = <<>> THEN 0
  ELSE (IF /\ Head(listing).type = "file"
           /\ \/ EndsWith(Lower(Head(listing).name.chars), DotJpg)
              \/ EndsWith(Lower(Head(listing).name.chars), DotJpeg)
          THEN 1 ELSE 0) + JpgCount(Tail(listing))

FlightInfo(flight_name, system_id, image_count) ==
  [k |-> "flight", flight_name |-> flight_name, system_id |-> system_id,
   image_count |-> image_count]

\* _check_flight_directory: the flight_info of a top entry, or PyNone
check_flight_directoryMutant(system_id, top) ==
  IF ~top.code.ok THEN PyNone
  ELSE IF ~\E i \in 1..Len(top.code.items) :
             top.code.items[i].name = PyText(ImagesName)
    THEN PyNone
  ELSE IF ~top.images.ok THEN PyNone
  ELSE IF JpgCount(top.images.items) > 0
    THEN FlightInfo(top.name.chars, system_id, JpgCount(top.images.items))
  ELSE PyNone
check_flight_directory(system_id, top) ==
  IF ~top.code.ok THEN PyNone
  ELSE IF ~\E i \in 1..Len(top.code.items) :
             /\ top.code.items[i].type = "dir"
             /\ top.code.items[i].name = PyText(ImagesName)
    THEN PyNone
  ELSE IF ~top.images.ok THEN PyNone
  ELSE IF JpgCount(top.images.items) > 0
    THEN FlightInfo(top.name.chars, system_id, JpgCount(top.images.items))
  ELSE PyNone

\* lines 95-101: the loop over the root listing
RECURSIVE FlightsOf(_, _)
FlightsOf(system_id, root_listing) ==
  IF root_listing = <<>> THEN <<>>
  ELSE LET item == Head(root_listing)
           rest == FlightsOf(system_id, Tail(root_listing))
       IN IF item.type = "dir" /\ Truthy(item.name)
            THEN (IF check_flight_directory(system_id, item) # PyNone
                    THEN <<check_flight_directory(system_id, item)>> \o rest
                    ELSE rest)
            ELSE rest

\* scan_system_for_flights: a failed root listing is logged and gives no flight
scan_system_for_flights(system) ==
  IF ~system.root.ok THEN <<>>
  ELSE FlightsOf(system.id.chars, system.root.items)

\* discover_project_systems: a failed query is logged and gives no system
discover_project_systems(systems) ==
  IF ~systems.ok THEN <<>> ELSE systems.items

\* lines 310-320: all_flights
RECURSIVE AllFlights(_)
AllFlights(systems) ==
  IF systems = <<>> THEN <<>>
  ELSE (IF Truthy(Head(systems).id)
          THEN scan_system_for_flights(Head(systems)) ELSE <<>>)
       \o AllFlights(Tail(systems))

\* a row of the Project table; the table is the sequence of its rows in the
\* order of their ids
ProjectRow(owner, tags) == [owner |-> owner, tags |-> tags]

\* line 175: tags=f"tapis,flight,{system_id},{flight_name}"
TagsOf(flight_info) ==
  TapisFlightPrefix \o flight_info.system_id \o Comma \o flight_info.flight_name

\* str.startswith(prefix)
StartsWith(str, prefix) ==
  /\ Len(prefix) <= Len(str)
  /\ SubSeq(str, 1, Len(prefix)) = prefix

\* str.split(','): the list of the pieces between the commas
RECURSIVE SplitOnComma(_)
SplitOnComma(str) ==
  IF ~\E i \in 1..Len(str) : str[i] = ","
    THEN <<str>>
    ELSE LET i == CHOOSE i \in 1..Len(str) :
                    /\ str[i] = ","
                    /\ \A j \in 1..(i - 1) : str[j] # ","
         IN <<SubSeq(str, 1, i - 1)>> \o SplitOnComma(SubSeq(str, i + 1, Len(str)))

\* str.strip(): without the blanks at both ends
RECURSIVE Strip(_)
Strip(str) ==
  IF str = <<>> THEN str
  ELSE IF Head(str) = " " THEN Strip(Tail(str))
  ELSE IF str[Len(str)] = " " THEN Strip(SubSeq(str, 1, Len(str) - 1))
  ELSE str

\* 'ptdatax.project', 'tapis', 'flight'
PtdataxProject ==
  <<"p", "t", "d", "a", "t", "a", "x", ".", "p", "r", "o", "j", "e", "c", "t">>
TapisWord  == <<"t", "a", "p", "i", "s">>
FlightWord == <<"f", "l", "i", "g", "h", "t">>

\* the loop over the tags of sync_project_images and sync_all_flight_projects,
\* from the n-th tag on: [system_id, flight_name], each a text or PyNone
RECURSIVE TagLoop(_, _, _)
TagLoop(tags, n, found) ==
  IF n > Len(tags) THEN found
  ELSE LET tag == Strip(tags[n]) IN
       TagLoop(tags, n + 1,
               IF StartsWith(tag, PtdataxProject)
                 THEN [found EXCEPT !.system_id = PyText(tag)]
               ELSE IF tag \notin {TapisWord, FlightWord}
                 THEN [found EXCEPT !.flight_name = PyText(tag)]
               ELSE found)

\* what both readers take from project.tags
ParseTags(tags) ==
  TagLoop(IF tags = <<>> THEN <<>> ELSE SplitOnComma(tags), 1,
          [system_id |-> PyNone, flight_name |-> PyNone])

\* line 361: flight_tag
FlightTag(flight_info) ==
  flight_info.system_id \o Comma \o flight_info.flight_name

\* _find_existing_project(user, flight_info) finds a project
find_existing_projectMutant(projects, user, flight_info) == FALSE
find_existing_project(projects, user, flight_info) ==
  \E i \in 1..Len(projects) :
    /\ projects[i].owner = user
    /\ IContains(projects[i].tags, FlightTag(flight_info))

\* lines 325-347: the loop over all_flights, from the n-th flight on;
\* fails holds the positions at which Project.objects.create raises
\* [projects, created]
RECURSIVE CreateLoop(_, _, _, _, _)
CreateLoop(projects, user, flights, n, fails) ==
  IF n > Len(flights) THEN [projects |-> projects, created |-> 0]
  ELSE IF find_existing_project(projects, user, flights[n])
    THEN CreateLoop(projects, user, flights, n + 1, fails)
  ELSE IF n \in fails
    THEN CreateLoop(projects, user, flights, n + 1, fails)
  ELSE LET rest == CreateLoop(Append(projects, ProjectRow(user, TagsOf(flights[n]))),
                              user, flights, n + 1, fails)
       IN [projects |-> rest.projects, created |-> rest.created + 1]

\* the Remote Storage API as one discovery pass sees it
Remote(systems) == [systems |-> systems]

\* TapisStorageService._get_valid_token raises nothing
HasValidToken(rows, user, client, t) ==
  LET m == TokenMatches(rows, user, client) IN
  /\ Cardinality(m) = 1
  /\ \A r \in m : Truthy(is_valid(r, t))

\* discover_and_create_projects(user, client): Exc when the storage service
\* cannot be constructed, else Ok([projects, results])
discover_and_create_projectsMutant(projects, rows, user, client, t, remote, fails) ==
  IF ~HasValidToken(rows, user, client, t) THEN Exc("ValueError")
  ELSE LET systems == discover_project_systems(remote.systems)
           all_flights ==
             IF \E s \in 1..Len(systems) : ~systems[s].root.ok THEN <<>>
             ELSE AllFlights(systems)
           done == CreateLoop(projects, user, all_flights, 1, fails)
       IN Ok([projects |-> done.projects,
              results |-> [systems_scanned |-> Len(systems),
                           flights_discovered |-> Len(all_flights),
                           projects_created |-> done.created,
                           errors |-> <<>>]])
discover_and_create_projects(projects, rows, user, client, t, remote, fails) ==
  IF ~HasValidToken(rows, user, client, t) THEN Exc("ValueError")
  ELSE LET systems == discover_project_systems(remote.systems)
           all_flights == AllFlights(systems)
           done == CreateLoop(projects, user, all_flights, 1, fails)
       IN Ok([projects |-> done.projects,
              results |-> [systems_scanned |-> Len(systems),
                           flights_discovered |-> Len(all_flights),
                           projects_created |-> done.created,
                           errors |-> <<>>]])

(***************************************************************************)
(* Discovery preferences: TapisUserPreferences                             *)
(***************************************************************************)
\* 'discovery_cooldown_hours': 24 of get_or_create_for_user
DefaultCooldownHours == 24

\* 'max_projects_per_discovery': 50 of get_or_create_for_user
DefaultMaxProjects == 50

NoPrefs == [k |-> "none"]
PrefRow(auto, hours, last) ==
  [k |-> "prefs", auto_discover_on_login |-> auto,
   max_projects_per_discovery |-> DefaultMaxProjects,
   discovery_cooldown_hours |-> hours, last_auto_discovery |-> last]

\* get_or_create_for_user: the row of the user, created with the defaults
\* when there is none
get_or_create_for_user(table, u) ==
  IF table[u] = NoPrefs THEN PrefRow(TRUE, DefaultCooldownHours, NoTime)
  ELSE table[u]

\* should_run_auto_discovery at clock t (the clock counts minutes)
should_run_auto_discoveryMutant(row, t) ==
  IF ~row.auto_discover_on_login THEN FALSE
  ELSE IF /\ row.last_auto_discovery.k = "time"
          /\ t - row.last_auto_discovery.t <= 60 * row.discovery_cooldown_hours
    THEN FALSE
  ELSE TRUE
should_run_auto_discovery(row, t) ==
  IF ~row.auto_discover_on_login THEN FALSE
  ELSE IF /\ row.last_auto_discovery.k = "time"
          /\ t - row.last_auto_discovery.t < 60 * row.discovery_cooldown_hours
    THEN FALSE
  ELSE TRUE

\* update_last_discovery at clock t: only last_auto_discovery is written
update_last_discovery(table, u, t) ==
  [table EXCEPT ![u] = [@ EXCEPT !.last_auto_discovery = At(t)]]

\* a discovery job handed to the task queue by worker p at clock t
Job(u, client_id, t, p, state) ==
  [user |-> u, client |-> client_id, at |-> t, by |-> p, state |-> state]

(***************************************************************************)
(* Responses                                                               *)
(***************************************************************************)
NoResp == [status |-> 0, error |-> "", location |-> ""]
JsonError(status, error) == [status |-> status, error |-> error, location |-> ""]
Redirect(url) == [status |-> 302, error |-> "", location |-> url]

(***************************************************************************)
(* State                                                                   *)
(***************************************************************************)
VARIABLES
  now,       \* the clock (timezone.now()), in minutes
  users,     \* the User table
  stateRows, \* the TapisOAuth2State table
  nextState, \* how many state values generate_state has returned, plus one
  tokenRows, \* the TapisOAuth2Token table
  nextPk,    \* the next primary key of the TapisOAuth2Token table
  authz,     \* the response of the last authorize request
  cb,        \* the callback requests in progress, one per worker
  consumed,  \* history: state values a callback has completed successfully with
  used,      \* history: state values a callback validated and then failed with
  rf,        \* the refresh request in progress
  rv,        \* the revoke request in progress
  statusResp, \* the response of the last status request
  prefs,     \* the TapisUserPreferences table: the row of each user, or NoPrefs
  jobs,      \* the discovery jobs handed to the task queue
  projects,  \* the Project table
  scanRuns,  \* history: the discovery passes run outside a login
  probe,     \* scanner harness: the remote hierarchy handed in and what came out
  pp,        \* the preferences request in progress
  sweeps,    \* the runs of the cleanup task: when, the rows before and after
  wdb,       \* the wait_for_db command: its position, clock and output
  disc,      \* _trigger_flight_discovery of each callback worker
  jPc,       \* decoder harness: "input", "validated" or "authenticated"
  jIn,       \* decoder harness: the access token handed in
  jNow,      \* decoder harness: int(time.time())
  jConf,     \* TAPIS_BASE_URL and TAPIS_TENANT_ID are set
  jInfo,     \* decoder harness: what _validate_token_with_tapis returned
  jUser,     \* decoder harness: what authenticate returned
  jUsers0    \* decoder harness: the User table before the call

jwtVars  == <<jPc, jIn, jNow, jInfo, jUser, jUsers0>>
apiVars  == <<rf, rv, statusResp, prefs, jobs, projects, scanRuns, probe,
             pp, sweeps, wdb>>
flowVars == <<now, stateRows, nextState, tokenRows, nextPk, authz, cb, consumed,
              used, apiVars, disc>>
vars == <<users, jConf, flowVars, jwtVars>>

(***************************************************************************)
(* Authorization Redirector: TapisOAuth2AuthorizeView.get                  *)
(***************************************************************************)
\* the value of a state parameter: n-th value generate_state returned
\* (secrets.token_urlsafe(64) never repeats); 0 is a value never issued
StateVal(n) == [k |-> "state", n |-> n]

\* the response of an authorize request: its status, the state value and the
\* client of the authorization URL it redirects to and, as history, the
\* client identifier of the request and the redirect_after parameter of a
\* request that was redirected
NoAuthz ==
  [status |-> 0, state |-> 0, client |-> "", client_id |-> "",
   redirect_after |-> PyNone]

\* TapisOAuth2AuthorizeView.get, lines 34-67
AuthorizeMutant(client_id, redirect_after, cap) ==
  /\ nextState <= cap
  /\ stateRows' = stateRows \cup
       {StateRow(nextState, client_id, RedirectAfter(redirect_after),
                 now, now + StateTTL)}
  /\ nextState' = nextState + 1
  /\ authz' = [status |-> IF ClientFound(client_id) THEN 302 ELSE 500,
               state |-> nextState, client |-> client_id,
               client_id |-> client_id,
               redirect_after |-> IF ClientFound(client_id)
                                    THEN redirect_after ELSE PyNone]
  /\ UNCHANGED <<now, users, jConf, tokenRows, nextPk, cb, consumed, used,
                 jwtVars, apiVars, disc>>
Authorize(client_id, redirect_after, cap) ==
  /\ IF ClientFound(client_id)
       THEN /\ nextState <= cap
            /\ stateRows' = stateRows \cup
                 {StateRow(nextState, client_id, RedirectAfter(redirect_after),
                           now, now + StateTTL)}
            /\ nextState' = nextState + 1
            /\ authz' = [status |-> 302, state |-> nextState,
                         client |-> client_id, client_id |-> client_id,
                         redirect_after |-> redirect_after]
       ELSE \* get_object_or_404 raises: the handler answers 500
            /\ authz' = [NoAuthz EXCEPT !.status = 500, !.client_id = client_id]
            /\ UNCHANGED <<stateRows, nextState>>
  /\ UNCHANGED <<now, users, jConf, tokenRows, nextPk, cb, consumed, used,
                 jwtVars, apiVars, disc>>

(***************************************************************************)
(* Callback Handler: TapisOAuth2CallbackView.get                           *)
(***************************************************************************)
Procs == 1..NumCallbacks

NoRow == StateRow(0, "", "", 0, 0)
NoPend == [refresh_token |-> PyStr(""), expires_at |-> NoTime]

\* a worker that awaits a callback
Idle ==
  [pc |-> "AWAITING_CODE", param |-> PyNone, hadError |-> FALSE,
   hadCode |-> FALSE, afterSuccess |-> FALSE, afterFailure |-> FALSE,
   when |-> "none", failedAt |-> "", st |-> NoRow, raw |-> PyAbsent, user |-> PyNone,
   session |-> FALSE, stored |-> FALSE, pend |-> NoPend, resp |-> NoResp]

\* the request of worker p ends with an error response
Failed(p, status, error) ==
  cb' = [cb EXCEPT ![p] = [@ EXCEPT !.pc = "FAILED", !.failedAt = cb[p].pc,
                                    !.resp = JsonError(status, error)]]

\* the clock read by int(time.time()): the model's clock starts one second
\* after the epoch
UnixTime(t) == 60 * t + 1

\* state_obj.delete(): DELETE of the row with state_obj's key
DeleteStateMutant(rows, state_obj) == rows
DeleteState(rows, state_obj) == rows \ {r \in rows : r.state = state_obj.state}

\* TapisOAuth2State.objects.get(state=state) for a state parameter
StateLookup(rows, state) ==
  IF state.k = "state" THEN StateMatches(rows, state.n) ELSE {}

\* lines 84-103: the checks of the callback, in the order of the code
CallbackChecksMutant(error, code, state, rows, t) ==
  IF ~Truthy(code) \/ ~Truthy(state) THEN "missing"
  ELSE IF Truthy(error) THEN "error"
  ELSE IF StateLookup(rows, state) = {} THEN "invalid"
  ELSE IF is_expired(CHOOSE r \in StateLookup(rows, state) : TRUE, t)
    THEN "expired"
  ELSE "ok"
CallbackChecks(error, code, state, rows, t) ==
  IF Truthy(error) THEN "error"
  ELSE IF ~Truthy(code) \/ ~Truthy(state) THEN "missing"
  ELSE IF StateLookup(rows, state) = {} THEN "invalid"
  ELSE IF is_expired(CHOOSE r \in StateLookup(rows, state) : TRUE, t)
    THEN "expired"
  ELSE "ok"

\* history: where the clock stands against the end of the row's ten minutes
When(rows, state, t) ==
  IF StateLookup(rows, state) = {} THEN "none"
  ELSE LET r == CHOOSE r \in StateLookup(rows, state) : TRUE IN
       IF t < r.created_at + StateTTL THEN "before"
       ELSE IF t = r.created_at + StateTTL THEN "at" ELSE "after"

\* lines 78-103: the parameters are read and the state is validated
CbValidate(p, error, code, state) ==
  /\ cb[p].pc = "AWAITING_CODE"
  /\ LET verdict == CallbackChecks(error, code, state, stateRows, now)
         got == [cb[p] EXCEPT
                   !.param = state,
                   !.hadError = Truthy(error),
                   !.hadCode = Truthy(code),
                   !.afterSuccess = state.k = "state" /\ state.n \in consumed,
                   !.afterFailure = state.k = "state" /\ state.n \in used,
                   !.when = When(stateRows, state, now)]
         fail(status, msg) ==
           cb' = [cb EXCEPT ![p] = [got EXCEPT !.pc = "FAILED",
                                              !.failedAt = "AWAITING_CODE",
                                              !.resp = JsonError(status, msg)]]
     IN
     CASE verdict = "error" ->
            fail(400, "OAuth2 error") /\ UNCHANGED stateRows
       [] verdict = "missing" ->
            fail(400, "Missing code or state parameter") /\ UNCHANGED stateRows
       [] verdict = "invalid" ->
            fail(400, "Invalid OAuth2 state") /\ UNCHANGED stateRows
       [] verdict = "expired" ->
            /\ stateRows' = DeleteState(stateRows,
                              CHOOSE r \in StateLookup(stateRows, state) : TRUE)
            /\ fail(400, "OAuth2 state expired")
       [] OTHER ->
            /\ cb' = [cb EXCEPT ![p] = [got EXCEPT
                        !.pc = "STATE_VALIDATED",
                        !.st = CHOOSE r \in StateLookup(stateRows, state) : TRUE]]
            /\ UNCHANGED stateRows
  /\ UNCHANGED <<now, users, jConf, nextState, tokenRows, nextPk, authz,
                 consumed, used, jwtVars, apiVars, disc>>

\* lines 105-111: _exchange_code_for_tokens returned token_data
CbExchange(p, token_data) ==
  /\ cb[p].pc = "STATE_VALIDATED"
  /\ IF ~Truthy(token_data)
       THEN /\ Failed(p, 500, "Failed to exchange code for tokens")
            /\ used' = used \cup {cb[p].st.state}
     ELSE IF token_data.k # "obj"
       THEN /\ Failed(p, 500, "OAuth2 callback failed")
            /\ used' = used \cup {cb[p].st.state}
     ELSE /\ cb' = [cb EXCEPT ![p] = [@ EXCEPT !.pc = "TOKEN_EXCHANGED",
                                               !.raw = token_data.access_token]]
          /\ UNCHANGED used
  /\ UNCHANGED <<now, users, jConf, stateRows, nextState, tokenRows, nextPk,
                 authz, consumed, jwtVars, apiVars, disc>>

\* lines 119-126: the bare token, or PyAbsent when the shape is refused
ExtractJwt(access_token_data) ==
  IF HasAccessToken(access_token_data) THEN access_token_data.access_token
  ELSE IF access_token_data.k = "tstr" THEN access_token_data
  ELSE PyAbsent

\* lines 113-135: the access token is located and the user authenticated
CbAuthenticate(p) ==
  /\ cb[p].pc = "TOKEN_EXCHANGED"
  /\ LET raw == cb[p].raw
         jwt_token == ExtractJwt(raw)
         bad(status, msg) ==
           /\ Failed(p, status, msg)
           /\ used' = used \cup {cb[p].st.state}
           /\ UNCHANGED users
     IN
     IF raw.k = "absent"
       THEN bad(500, "No access token in Tapis response")
     ELSE IF jwt_token.k = "absent"
       THEN bad(500, "Invalid access token structure in Tapis response")
     ELSE \E sliced \in SliceOutcomes(jwt_token) :
          IF sliced = "KeyError"
            THEN bad(500, "Missing key in OAuth2 response")
          ELSE IF sliced = "TypeError"
            THEN bad(500, "OAuth2 callback failed")
          ELSE LET a == authenticate(users, jConf, jwt_token, UnixTime(now)) IN
               IF ~Truthy(a.user)
                 THEN bad(401, "Failed to authenticate user with Tapis")
                 ELSE /\ cb' = [cb EXCEPT ![p] = [@ EXCEPT
                                   !.pc = "USER_AUTHENTICATED", !.user = a.user]]
                      /\ users' = a.users
                      /\ UNCHANGED used
  /\ UNCHANGED <<now, jConf, stateRows, nextState, tokenRows, nextPk, authz,
                 consumed, jwtVars, apiVars, disc>>

\* line 138: login(request, user, backend=...)
CbLoginMutant(p) ==
  /\ cb[p].pc = "TOKEN_EXCHANGED"
  /\ cb' = [cb EXCEPT ![p] = [@ EXCEPT !.pc = "SESSION_ESTABLISHED",
                                       !.session = TRUE]]
  /\ UNCHANGED <<now, users, jConf, stateRows, nextState, tokenRows, nextPk,
                 authz, consumed, used, jwtVars, apiVars, disc>>
CbLogin(p) ==
  /\ cb[p].pc = "USER_AUTHENTICATED"
  /\ cb' = [cb EXCEPT ![p] = [@ EXCEPT !.pc = "SESSION_ESTABLISHED",
                                       !.session = TRUE]]
  /\ UNCHANGED <<now, users, jConf, stateRows, nextState, tokenRows, nextPk,
                 authz, consumed, used, jwtVars, apiVars, disc>>

\* the token fields update_or_create writes (its defaults)
WithDefaults(row, at, rt, e) ==
  [row EXCEPT !.access_token = at, !.refresh_token = rt,
              !.token_type = DefaultTokenType, !.expires_at = e]

\* line 141, _store_user_tokens up to the SELECT of update_or_create:
\* refresh_token and expires_in are the fields of token_data read here
CbStore(p, refresh_token, expires_in) ==
  /\ cb[p].pc = "SESSION_ESTABLISHED"
  /\ LET m == TokenMatches(tokenRows, cb[p].user.s, cb[p].st.client)
         e == ExpiresAt(expires_in, now)
         rt == RefreshOf(refresh_token)
     IN
     IF Truthy(expires_in) /\ expires_in.k # "int"
       THEN \* int(expires_in) raises ValueError: caught and logged
            /\ cb' = [cb EXCEPT ![p] = [@ EXCEPT !.pc = "TOKENS_STORED"]]
            /\ UNCHANGED tokenRows
     ELSE IF Cardinality(m) > 1
       THEN \* MultipleObjectsReturned: caught and logged
            /\ cb' = [cb EXCEPT ![p] = [@ EXCEPT !.pc = "TOKENS_STORED"]]
            /\ UNCHANGED tokenRows
     ELSE IF m # {}
       THEN /\ tokenRows' = (tokenRows \ m) \cup
                 {WithDefaults(r, cb[p].raw, rt, e) : r \in m}
            /\ cb' = [cb EXCEPT ![p] = [@ EXCEPT !.pc = "TOKENS_STORED",
                                                 !.stored = TRUE]]
     ELSE /\ nextPk <= MaxTokenPk
          /\ cb' = [cb EXCEPT ![p] = [@ EXCEPT
                      !.pc = "STORE_INSERT",
                      !.pend = [refresh_token |-> rt, expires_at |-> e]]]
          /\ UNCHANGED tokenRows
  /\ UNCHANGED <<now, users, jConf, stateRows, nextState, nextPk, authz,
                 consumed, used, jwtVars, apiVars, disc>>

\* the INSERT of update_or_create: the database refuses a second row of the
\* same (user, client); update_or_create then updates the row that is there
CbStoreInsert(p) ==
  /\ cb[p].pc = "STORE_INSERT"
  /\ LET row == TokenRow(nextPk, cb[p].user.s, cb[p].st.client, cb[p].raw,
                         cb[p].pend.refresh_token, cb[p].pend.expires_at)
         m == TokenMatches(tokenRows, row.user, row.client)
     IN
     IF UniqueUserClient(tokenRows, row)
       THEN /\ tokenRows' = tokenRows \cup {row}
            /\ nextPk' = nextPk + 1
       ELSE /\ tokenRows' = (tokenRows \ m) \cup
                 {WithDefaults(r, row.access_token, row.refresh_token,
                               row.expires_at) : r \in m}
            /\ UNCHANGED nextPk
  /\ cb' = [cb EXCEPT ![p] = [@ EXCEPT !.pc = "TOKENS_STORED", !.stored = TRUE,
                                       !.pend = NoPend]]
  /\ UNCHANGED <<now, users, jConf, stateRows, nextState, authz, consumed, used,
                 jwtVars, apiVars, disc>>

\* _trigger_flight_discovery of a worker: where it stands and, as history,
\* what it saw and did
NoDisc ==
  [pc |-> "idle", should |-> FALSE, seen |-> NoPrefs, at |-> 0,
   prior |-> NoTime, dispatch |-> "none", mode |-> "none", scan |-> "none",
   updated |-> FALSE]

\* history: when a login last handed a job of user u to the queue
LastDispatch(js, u) ==
  LET mine == {j \in js : j.user = u} IN
  IF mine = {} THEN NoTime
  ELSE At(CHOOSE t \in {j.at : j \in mine} : \A j \in mine : j.at <= t)

\* lines 239-243: the preferences are fetched and the cooldown is checked
CbDiscoverCheckMutant(p) ==
  /\ cb[p].pc = "TOKENS_STORED"
  /\ disc[p].pc = "idle"
  /\ LET u == cb[p].user.s
         preferences == get_or_create_for_user(prefs, u)
         should == should_run_auto_discovery(preferences, now)
     IN /\ prefs' = [prefs EXCEPT ![u] =
                       IF should
                         THEN [preferences EXCEPT !.last_auto_discovery = At(now)]
                         ELSE preferences]
        /\ disc' = [disc EXCEPT ![p] =
                      [NoDisc EXCEPT !.pc = IF should THEN "DISPATCH" ELSE "done",
                                     !.should = should, !.seen = preferences,
                                     !.at = now, !.prior = LastDispatch(jobs, u)]]
  /\ UNCHANGED <<now, users, jConf, stateRows, nextState, tokenRows, nextPk,
                 authz, cb, consumed, used, rf, rv, statusResp, jobs, projects,
                 scanRuns, probe, pp, sweeps,
                 wdb, jwtVars>>
CbDiscoverCheck(p) ==
  /\ cb[p].pc = "TOKENS_STORED"
  /\ disc[p].pc = "idle"
  /\ LET u == cb[p].user.s
         preferences == get_or_create_for_user(prefs, u)
         should == should_run_auto_discovery(preferences, now)
     IN /\ prefs' = [prefs EXCEPT ![u] = preferences]
        /\ disc' = [disc EXCEPT ![p] =
                      [NoDisc EXCEPT !.pc = IF should THEN "DISPATCH" ELSE "done",
                                     !.should = should, !.seen = preferences,
                                     !.at = now, !.prior = LastDispatch(jobs, u)]]
  /\ UNCHANGED <<now, users, jConf, stateRows, nextState, tokenRows, nextPk,
                 authz, cb, consumed, used, rf, rv, statusResp, jobs, projects,
                 scanRuns, probe, pp, sweeps,
                 wdb, jwtVars>>

\* lines 245-277: the job is handed to the queue, or the scanner is run in
\* the request when the task module cannot be imported. dispatch is what the
\* hand-over does: "queued", "ImportError" or "error" (delay raises);
\* remote and fails are what a scan in the request meets
CbDiscoverDispatch(p, dispatch, remote, fails) ==
  /\ cb[p].pc = "TOKENS_STORED"
  /\ disc[p].pc = "DISPATCH"
  /\ LET u == cb[p].user.s
         client == cb[p].st.client
         results == discover_and_create_projects(projects, tokenRows, u, client,
                                                 now, remote, fails)
         did(mode, scan, updated) ==
           disc' = [disc EXCEPT ![p] = [@ EXCEPT !.pc = "done",
                                                 !.dispatch = dispatch,
                                                 !.mode = mode, !.scan = scan,
                                                 !.updated = updated]]
     IN
     CASE dispatch = "queued" ->
            /\ jobs' = jobs \cup {Job(u, client, now, p, "queued")}
            /\ prefs' = update_last_discovery(prefs, u, now)
            /\ did("async", "none", TRUE)
            /\ UNCHANGED projects
       [] dispatch = "ImportError" ->
            IF results.k = "exc"
              THEN /\ did("sync", "raised", FALSE)
                   /\ UNCHANGED <<jobs, prefs, projects>>
              ELSE /\ projects' = results.v.projects
                   /\ prefs' = update_last_discovery(prefs, u, now)
                   /\ did("sync", "returned", TRUE)
                   /\ UNCHANGED jobs
       [] OTHER ->
            /\ did("none", "none", FALSE)
            /\ UNCHANGED <<jobs, prefs, projects>>
  /\ UNCHANGED <<now, users, jConf, stateRows, nextState, tokenRows, nextPk,
                 authz, cb, consumed, used, rf, rv, statusResp, scanRuns, probe, pp, sweeps,
                 wdb, jwtVars>>

\* lines 146-152: the state row is deleted and the redirect issued
CbFinish(p) ==
  /\ cb[p].pc = "TOKENS_STORED"
  /\ disc[p].pc = "done"
  /\ disc' = [disc EXCEPT ![p] = NoDisc]
  /\ LET redirect_url ==
           IF cb[p].st.redirect_after_auth # ""
             THEN cb[p].st.redirect_after_auth ELSE DefaultRedirect
     IN cb' = [cb EXCEPT ![p] = [@ EXCEPT !.pc = "DONE",
                                          !.resp = Redirect(redirect_url)]]
  /\ stateRows' = DeleteState(stateRows, cb[p].st)
  /\ consumed' = consumed \cup {cb[p].st.state}
  /\ UNCHANGED <<now, users, jConf, nextState, tokenRows, nextPk, authz, used,
                 jwtVars, apiVars>>

\* the response has been sent; the worker awaits the next callback
CbReset(p) ==
  /\ cb[p].pc \in {"DONE", "FAILED"}
  /\ cb' = [cb EXCEPT ![p] = Idle]
  /\ UNCHANGED <<now, users, jConf, stateRows, nextState, tokenRows, nextPk,
                 authz, consumed, used, jwtVars, apiVars, disc>>

\* d minutes pass
Tick(d) ==
  /\ now + d <= MaxTime
  /\ now' = now + d
  /\ UNCHANGED <<users, jConf, stateRows, nextState, tokenRows, nextPk, authz,
                 cb, consumed, used, jwtVars, apiVars, disc>>

\* the cleanup task runs at most MaxSweeps times
MaxSweeps == 1

\* TapisOAuth2State.cleanup_expired at clock t:
\* filter(expires_at__lt=timezone.now()).delete(), the rows that are left
cleanup_expiredMutant(rows, t) == {r \in rows : ~(r.expires_at <= t)}
cleanup_expired(rows, t) == {r \in rows : ~(r.expires_at < t)}

\* a run of the cleanup task as sweeps records it
Sweep(t, before, after) == [at |-> t, before |-> before, after |-> after]

\* the periodic task cleanup_expired_oauth_states
CleanupExpired ==
  /\ Len(sweeps) < MaxSweeps
  /\ stateRows' = cleanup_expired(stateRows, now)
  /\ sweeps' = Append(sweeps, Sweep(now, stateRows, cleanup_expired(stateRows, now)))
  /\ UNCHANGED <<now, users, jConf, nextState, tokenRows, nextPk, authz, cb,
                 consumed, used, rf, rv, statusResp, prefs, jobs, projects,
                 scanRuns, probe, pp, disc, wdb, jwtVars>>

(***************************************************************************)
(* The wait_for_db command                                                 *)
(***************************************************************************)
\* the command is watched for MaxWaitSeconds seconds; --timeout is at most
\* MaxTimeoutOption
MaxWaitSeconds   == 5
MaxTimeoutOption == 3

\* what the command does not touch
notWdb == <<now, users, jConf, stateRows, nextState, tokenRows, nextPk, authz,
            cb, consumed, used, rf, rv, statusResp, prefs, jobs, projects,
            scanRuns, probe, pp, sweeps, disc, jwtVars>>

\* lines 19-25: handle starts with --timeout; elapsed is
\* time.time() - start_time in whole seconds
WaitHandle(timeout) ==
  /\ wdb.pc = "idle"
  /\ wdb' = [pc |-> "loop", timeout |-> timeout, elapsed |-> 0,
             db_conn |-> FALSE, attempts |-> <<>>,
             out |-> <<"Waiting for database...">>]
  /\ UNCHANGED notWdb

\* lines 26-39: 'while not db_conn' is entered; db_conn is bound to
\* connections['default'], a connection object, before cursor() connects.
\* cursor() returns, or raises OperationalError: past the timeout the
\* command reports and returns, else it reports and goes to sleep
WaitAttempt(outcome) ==
  /\ wdb.pc = "loop"
  /\ ~wdb.db_conn
  /\ LET tried == [wdb EXCEPT !.db_conn = TRUE,
                              !.attempts = Append(@, outcome)]
     IN wdb' =
          IF outcome = "ok" THEN tried
          ELSE IF wdb.elapsed > wdb.timeout
            THEN [tried EXCEPT !.pc = "returned",
                               !.out = Append(@, "Database unavailable after N seconds")]
          ELSE [tried EXCEPT !.pc = "sleep",
                             !.out = Append(@, "Database unavailable, waiting 1 second...")]
  /\ UNCHANGED notWdb

\* line 40: time.sleep(1)
WaitSleep ==
  /\ wdb.pc = "sleep"
  /\ wdb.elapsed < MaxWaitSeconds
  /\ wdb' = [wdb EXCEPT !.pc = "loop", !.elapsed = @ + 1]
  /\ UNCHANGED notWdb

\* lines 26, 42-44: 'while not db_conn' is left
WaitLeave ==
  /\ wdb.pc = "loop"
  /\ wdb.db_conn
  /\ wdb' = [wdb EXCEPT !.pc = "returned",
                        !.out = Append(@, "Database available!")]
  /\ UNCHANGED notWdb

\* a second passes while the command connects or is about to
WaitElapse ==
  /\ wdb.pc = "loop"
  /\ wdb.elapsed < MaxWaitSeconds
  /\ wdb' = [wdb EXCEPT !.elapsed = @ + 1]
  /\ UNCHANGED notWdb

(***************************************************************************)
(* Token refresh and revocation: TapisOAuth2TokenRefreshView.post and      *)
(* TapisOAuth2RevokeView.post                                              *)
(***************************************************************************)
NoToken == TokenRow(0, "", "", PyNone, PyNone, NoTime)

\* no request in progress; status is the status of the last response and, as
\* history, user and client are who sent the last request and for which
\* client, loaded is the row it worked on and answer what the provider
\* answered to it
NoRequest ==
  [pc |-> "idle", token_obj |-> NoToken, status |-> 0, user |-> "",
   client |-> "", loaded |-> NoToken, answer |-> PyNone]

\* Model.save() of a row that was loaded: UPDATE by primary key, and an INSERT
\* with that key when the UPDATE matched nothing; [ok, rows]
SaveToken(rows, token_obj) ==
  IF \E r \in rows : r.pk = token_obj.pk
    THEN [ok |-> TRUE,
          rows |-> {r \in rows : r.pk # token_obj.pk} \cup {token_obj}]
  ELSE IF UniqueUserClient(rows, token_obj)
    THEN [ok |-> TRUE, rows |-> rows \cup {token_obj}]
  ELSE [ok |-> FALSE, rows |-> rows]

\* token_obj.delete(): DELETE of the row with token_obj's key
DeleteToken(rows, token_obj) == {r \in rows : r.pk # token_obj.pk}

\* the response with this status to the request of u for client_id
Answered(u, client_id, status) ==
  [NoRequest EXCEPT !.status = status, !.user = u, !.client = client_id]

\* lines 288-296: the client and the token row of request.user are looked up
RefreshGet(u, client_id) ==
  /\ rf.pc = "idle"
  /\ HasUser(users, u)
  /\ LET m == TokenMatches(tokenRows, u, client_id) IN
     IF ~ClientFound(client_id) THEN rf' = Answered(u, client_id, 500)
     ELSE IF m = {} THEN rf' = Answered(u, client_id, 404)
     ELSE IF Cardinality(m) > 1 THEN rf' = Answered(u, client_id, 500)
     ELSE LET token_obj == CHOOSE r \in m : TRUE IN
          IF ~Truthy(token_obj.refresh_token)
            THEN rf' = Answered(u, client_id, 400)
            ELSE rf' = [Answered(u, client_id, 0) EXCEPT
                          !.pc = "REFRESHING", !.token_obj = token_obj]
  /\ UNCHANGED <<now, users, jConf, stateRows, nextState, tokenRows, nextPk,
                 authz, cb, consumed, used, rv, statusResp, prefs, jobs, projects,
                 scanRuns, probe, pp, disc, sweeps,
                 wdb, jwtVars>>

\* lines 305-316: the fields the refresh sets on the loaded instance
Refreshed(token_obj, new_token_data, t) ==
  [token_obj EXCEPT
     !.access_token =
       IF new_token_data.access_token.k = "absent"
         THEN PyNone ELSE new_token_data.access_token,
     !.token_type =
       IF new_token_data.token_type.k = "absent"
         THEN DefaultTokenType ELSE new_token_data.token_type,
     !.expires_at = ExpiresAt(new_token_data.expires_in, t),
     !.refresh_token =
       IF new_token_data.refresh_token.k = "absent"
         THEN @ ELSE new_token_data.refresh_token]

\* lines 299-323: the provider has answered; the row is written back
RefreshSaveMutant(new_token_data) ==
  /\ rf.pc = "REFRESHING"
  /\ LET done(status) ==
           rf' = [Answered(rf.user, rf.client, status) EXCEPT
                    !.loaded = rf.token_obj, !.answer = new_token_data]
     IN
     IF ~Truthy(new_token_data)
       THEN done(500) /\ UNCHANGED tokenRows
     ELSE IF Truthy(new_token_data.expires_in) /\ new_token_data.expires_in.k # "int"
       THEN done(500) /\ UNCHANGED tokenRows
     ELSE LET token_obj ==
                [Refreshed(rf.token_obj, new_token_data, now) EXCEPT
                   !.refresh_token = RefreshOf(new_token_data.refresh_token)]
              saved == SaveToken(tokenRows, token_obj)
          IN /\ tokenRows' = saved.rows
             /\ done(IF saved.ok THEN 200 ELSE 500)
  /\ UNCHANGED <<now, users, jConf, stateRows, nextState, nextPk, authz, cb,
                 consumed, used, rv, statusResp, prefs, jobs, projects,
                 scanRuns, probe, pp, disc, sweeps,
                 wdb, jwtVars>>
RefreshSave(new_token_data) ==
  /\ rf.pc = "REFRESHING"
  /\ LET done(status) ==
           rf' = [Answered(rf.user, rf.client, status) EXCEPT
                    !.loaded = rf.token_obj, !.answer = new_token_data]
     IN
     IF ~Truthy(new_token_data)
       THEN done(500) /\ UNCHANGED tokenRows
     ELSE IF Truthy(new_token_data.expires_in) /\ new_token_data.expires_in.k # "int"
       THEN \* int(expires_in) raises ValueError: the outer handler answers
            done(500) /\ UNCHANGED tokenRows
     ELSE LET token_obj == Refreshed(rf.token_obj, new_token_data, now)
              saved == SaveToken(tokenRows, token_obj)
          IN /\ tokenRows' = saved.rows
             /\ done(IF saved.ok THEN 200 ELSE 500)
  /\ UNCHANGED <<now, users, jConf, stateRows, nextState, nextPk, authz, cb,
                 consumed, used, rv, statusResp, prefs, jobs, projects,
                 scanRuns, probe, pp, disc, sweeps,
                 wdb, jwtVars>>

\* lines 399-404: the client and the token row of request.user are looked up
RevokeGet(u, client_id) ==
  /\ rv.pc = "idle"
  /\ HasUser(users, u)
  /\ LET m == TokenMatches(tokenRows, u, client_id) IN
     IF ~ClientFound(client_id) THEN rv' = Answered(u, client_id, 500)
     ELSE IF m = {} THEN rv' = Answered(u, client_id, 404)
     ELSE IF Cardinality(m) > 1 THEN rv' = Answered(u, client_id, 500)
     ELSE rv' = [Answered(u, client_id, 0) EXCEPT
                   !.pc = "REVOKING", !.token_obj = CHOOSE r \in m : TRUE]
  /\ UNCHANGED <<now, users, jConf, stateRows, nextState, tokenRows, nextPk,
                 authz, cb, consumed, used, rf, statusResp, prefs, jobs, projects,
                 scanRuns, probe, pp, disc, sweeps,
                 wdb, jwtVars>>

\* lines 410-414: the row is deleted
RevokeDelete ==
  /\ rv.pc = "REVOKING"
  /\ tokenRows' = DeleteToken(tokenRows, rv.token_obj)
  /\ rv' = [Answered(rv.user, rv.client, 200) EXCEPT !.loaded = rv.token_obj]
  /\ UNCHANGED <<now, users, jConf, stateRows, nextState, nextPk, authz, cb,
                 consumed, used, rf, statusResp, prefs, jobs, projects,
                 scanRuns, probe, pp, disc, sweeps,
                 wdb, jwtVars>>

(***************************************************************************)
(* The background discovery job and the preferences endpoint               *)
(***************************************************************************)
\* the Celery task discover_and_create_flight_projects runs job j
JobRun(j, remote, fails) ==
  /\ j \in jobs
  /\ j.state = "queued"
  /\ LET results == discover_and_create_projects(projects, tokenRows, j.user,
                                                 j.client, now, remote, fails)
     IN IF ~ClientFound(j.client) \/ results.k = "exc"
          THEN /\ jobs' = (jobs \ {j}) \cup {[j EXCEPT !.state = "failed"]}
               /\ UNCHANGED projects
          ELSE /\ jobs' = (jobs \ {j}) \cup {[j EXCEPT !.state = "ok"]}
               /\ projects' = results.v.projects
  /\ UNCHANGED <<now, users, jConf, stateRows, nextState, tokenRows, nextPk,
                 authz, cb, consumed, used, rf, rv, statusResp, prefs, scanRuns, probe, pp,
                 disc, sweeps,
                 wdb, jwtVars>>

\* a discovery pass as scanRuns records it
ScanRun(u, remote, fails, before, after, created) ==
  [user |-> u, remote |-> remote, fails |-> fails, before |-> before,
   after |-> after, created |-> created]

\* periodic_flight_discovery(user_id, client_id) for one user: a discovery
\* pass outside a login; a pass that raises is logged and changes nothing
Discover(u, client_id, remote, fails) ==
  /\ Len(scanRuns) < MaxScanRuns
  /\ HasUser(users, u)
  /\ ClientFound(client_id)
  /\ LET results == discover_and_create_projects(projects, tokenRows, u,
                                                 client_id, now, remote, fails)
     IN IF results.k = "exc"
          THEN UNCHANGED <<projects, scanRuns>>
          ELSE /\ projects' = results.v.projects
               /\ scanRuns' = Append(scanRuns,
                    ScanRun(u, remote, fails, projects, results.v.projects,
                            results.v.results.projects_created))
  /\ UNCHANGED <<now, users, jConf, stateRows, nextState, tokenRows, nextPk,
                 authz, cb, consumed, used, rf, rv, statusResp, prefs, jobs, probe, pp,
                 disc, sweeps,
                 wdb, jwtVars>>

\* the Project table holds at most MaxProjectRows rows before a request
MaxProjectRows == 3

\* api/tapis_storage.py lines 168-185: the loop over the flights of the
\* request, from the n-th on; create_project_from_flight reads image_count
\* and the other keys of a scanner match and gives None for a flight_info
\* without them (KeyError, logged); no look-up of an existing project
RECURSIVE CreateFromFlights(_, _, _, _)
CreateFromFlights(table, user, flights, n) ==
  IF n > Len(flights) THEN table
  ELSE CreateFromFlights(
         IF "image_count" \in DOMAIN flights[n]
           THEN Append(table, ProjectRow(user, TagsOf(flights[n])))
           ELSE table,
         user, flights, n + 1)

\* the body of a create_projects request
CreateBody(auto_discover, flights) ==
  [auto_discover |-> auto_discover, flights |-> flights]

\* TapisStorageViewSet.create_projects by user u: 401 without a valid token,
\* a discovery pass for auto_discover, 400 for an empty flights list, else a
\* project for every flight of the list
CreateProjects(u, client_id, body, remote) ==
  /\ Len(projects) < MaxProjectRows
  /\ HasUser(users, u)
  /\ ClientFound(client_id)
  /\ IF ~HasValidToken(tokenRows, u, client_id, now)
       THEN UNCHANGED projects
     ELSE IF body.auto_discover
       THEN projects' =
              discover_and_create_projects(projects, tokenRows, u, client_id,
                                           now, remote, {}).v.projects
     ELSE projects' = CreateFromFlights(projects, u, body.flights, 1)
  /\ UNCHANGED <<now, users, jConf, stateRows, nextState, tokenRows, nextPk,
                 authz, cb, consumed, used, rf, rv, statusResp, prefs, jobs,
                 scanRuns, probe, pp, disc, sweeps,
                 wdb, jwtVars>>

\* no preferences request in progress
NoPrefsRequest == [pc |-> "idle", user |-> "", preferences |-> NoPrefs]

\* TapisUserPreferencesView.post, lines 66-88, with auto_discover_on_login and
\* discovery_cooldown_hours in the body: the row is fetched or created and
\* the request's values are set on the instance; a negative cooldown is
\* refused (400) before anything is saved
PrefsPost(u, auto, hours) ==
  /\ pp.pc = "idle"
  /\ HasUser(users, u)
  /\ LET preferences == get_or_create_for_user(prefs, u) IN
     /\ prefs' = [prefs EXCEPT ![u] = preferences]
     /\ pp' = IF hours < 0 THEN NoPrefsRequest
              ELSE [pc |-> "SAVE", user |-> u,
                    preferences |->
                      [preferences EXCEPT !.auto_discover_on_login = auto,
                                          !.discovery_cooldown_hours = hours]]
  /\ UNCHANGED <<now, users, jConf, stateRows, nextState, tokenRows, nextPk,
                 authz, cb, consumed, used, rf, rv, statusResp, jobs, projects,
                 scanRuns, probe, disc, sweeps,
                 wdb, jwtVars>>

\* line 114: preferences.save() writes every field of the instance
PrefsPostSave ==
  /\ pp.pc = "SAVE"
  /\ prefs' = [prefs EXCEPT ![pp.user] = pp.preferences]
  /\ pp' = NoPrefsRequest
  /\ UNCHANGED <<now, users, jConf, stateRows, nextState, tokenRows, nextPk,
                 authz, cb, consumed, used, rf, rv, statusResp, jobs, projects,
                 scanRuns, probe, disc, sweeps,
                 wdb, jwtVars>>

\* h hours pass
Hours(h) ==
  /\ now + 60 * h <= 60 * DiscMaxHours
  /\ now' = now + 60 * h
  /\ UNCHANGED <<users, jConf, stateRows, nextState, tokenRows, nextPk, authz,
                 cb, consumed, used, apiVars, disc, jwtVars>>

(***************************************************************************)
(* Status: TapisOAuth2StatusView.get                                       *)
(***************************************************************************)
NoStatus == [user |-> "", tokens |-> {}]

\* one element of token_info
TokenInfo(row, t) ==
  [client_id |-> row.client, is_valid |-> is_valid(row, t),
   expires_at |-> row.expires_at]

\* lines 366-384: the tokens of request.user, with is_valid of each
Status(u) ==
  /\ HasUser(users, u)
  /\ statusResp' = [user |-> u,
                    tokens |-> {TokenInfo(r, now) : r \in {x \in tokenRows : x.user = u}}]
  /\ UNCHANGED <<now, users, jConf, stateRows, nextState, tokenRows, nextPk,
                 authz, cb, consumed, used, rf, rv, prefs, jobs, projects,
                 scanRuns, probe, pp, disc, sweeps,
                 wdb, jwtVars>>

\* what the provider can answer to a refresh: response.json() or None
NewTokenData(at, tt, rt, ei) ==
  [k |-> "obj", access_token |-> at, token_type |-> tt, refresh_token |-> rt,
   expires_in |-> ei]

(***************************************************************************)
(* The login flow                                                          *)
(***************************************************************************)
\* what a user agent can send as error, code and state
ErrorParams == {PyNone, PyStr(""), PyStr("access_denied")}
CodeParams  == {PyNone, PyStr(""), PyStr("c0de")}
StateParams(cap) == {PyNone, PyStr("")} \cup {StateVal(n) : n \in 0..cap}
RedirectParams == {PyNone, PyStr(""), PyStr("/next/")}

\* what the provider can answer to the code exchange
AccessTokenShapes ==
  {PyAbsent, PyNone, PyInt(7), PyList, DictNoKey,
   JwtFor("alice"), TwoSegJwt,
   Nested(JwtFor("alice")), Nested(PyList), Nested(PyInt(7)),
   Nested(Nested(JwtFor("alice")))}
TokenDatas ==
  {PyNone, PyEmptyDict, PyList} \cup {TokenData(a) : a \in AccessTokenShapes}

\* the answers tried against the minute clock: no payload, a token that
\* authenticates (plain and nested), one that does not
FlowTokenDatas ==
  {PyNone, TokenData(JwtFor("alice")), TokenData(Nested(JwtFor("alice"))),
   TokenData(TwoSegJwt)}

\* system ids and directory names of the model are short texts
SysOne == PyText(<<"s", "1">>)
\* a top-level directory <name>/code/images/ with one picture
FlightDir(name) ==
  TopEntry("dir", PyText(name),
           Listing(<<Entry("dir", PyText(ImagesName))>>),
           Listing(<<Entry("file", PyText(<<"x">> \o DotJpg))>>))
\* no system can be listed / one system with one flight
NoRemote == Remote(Fail)
OneFlightRemote ==
  Remote(Listing(<<System(SysOne, Listing(<<FlightDir(<<"a">>)>>))>>))

\* a top-level directory <name>/code/images/ without a picture
NoPictureDir(name) ==
  TopEntry("dir", PyText(name),
           Listing(<<Entry("dir", PyText(ImagesName))>>),
           Listing(<<Entry("file", PyText(<<"x">>))>>))
\* one system whose root listing is root
OneSystem(root) == Remote(Listing(<<System(SysOne, Listing(root))>>))
\* flight directory names: one is a prefix of another, two differ in case only
FlightNames == {<<"a">>, <<"a", "b">>, <<"A">>}
\* one system with two top-level flight directories, in every order; a
\* system whose second directory has no picture; no system
ScanRemotes ==
  {OneSystem(<<FlightDir(x), FlightDir(y)>>) : x, y \in FlightNames}
  \cup {OneSystem(<<FlightDir(<<"a">>), NoPictureDir(<<"a", "b">>)>>), NoRemote}
\* positions of all_flights at which creating the project fails
ScanFails == SUBSET {1, 2}

DispatchOutcomes == {"queued", "ImportError", "error"}

\* bodies of the preferences endpoint: <<auto_discover_on_login,
\* discovery_cooldown_hours>>
PrefsBodies == {<<TRUE, 1>>, <<FALSE, 1>>, <<TRUE, -1>>}

\* the wait_for_db command has not been started
NoWait == [pc |-> "idle"]
\* the scanner has been handed no remote hierarchy
NoProbe == [pc |-> "idle"]

\* no refresh, revoke or status request has been made
ApiInit ==
  /\ rf = NoRequest
  /\ rv = NoRequest
  /\ statusResp = NoStatus
  /\ prefs = [u \in Usernames |-> NoPrefs]
  /\ jobs = {}
  /\ projects = <<>>
  /\ scanRuns = <<>>
  /\ probe = NoProbe
  /\ sweeps = <<>>
  /\ wdb = NoWait
  /\ pp = NoPrefsRequest
  /\ disc = [p \in Procs |-> NoDisc]

FlowInit ==
  /\ now = 0
  /\ stateRows = {}
  /\ nextState = 1
  /\ tokenRows = {}
  /\ nextPk = 1
  /\ authz = NoAuthz
  /\ cb = [p \in Procs |-> Idle]
  /\ consumed = {}
  /\ used = {}
  /\ ApiInit

(***************************************************************************)
(* Decoder harness: the inputs of the pure functions                       *)
(***************************************************************************)
\* JSON values that are not objects
NonObjects == {PyList, PyInt(7), PyNone}

SecondSegs ==
  {SegBadBase64, SegNotUtf8, SegNotJson}
    \cup {SegJson(v) : v \in NonObjects}
    \cup {SegJson(p) : p \in Payloads}

\* strings of n segments: only the second segment is ever decoded
TokensOfLen(n) ==
  IF n = 1 THEN {TokStr(<<SegOpaque>>)}
  ELSE {TokStr([i \in 1..n |-> IF i = 2 THEN s ELSE SegOpaque]) : s \in SecondSegs}

JwtInputs ==
  {PyNone, PyList, EmptyStr} \cup UNION {TokensOfLen(n) : n \in 1..MaxSegments}

UserTables == {{}, {UserRow("alice", "")}, {UserRow("alice", "a@x"), UserRow("bob", "")}}

JwtIdle ==
  /\ jPc = "input" /\ jIn = PyNone /\ jNow = 1
  /\ jInfo = Ok(PyNone) /\ jUser = PyNone /\ jUsers0 = {}

JwtInit ==
  /\ FlowInit
  /\ jPc = "input"
  /\ jIn \in JwtInputs
  /\ jNow \in 1..MaxUnixTime
  /\ jConf \in BOOLEAN
  /\ jInfo = Ok(PyNone)
  /\ jUser = PyNone
  /\ users \in UserTables
  /\ jUsers0 = users

\* validate_tapis_jwt_token(token): the decoder called on its own
JwtValidate ==
  /\ jPc = "input"
  /\ jIn.k = "tstr" \/ jIn.k = "list"
  /\ jPc' = "validated"
  /\ jInfo' = validate_token_with_tapis(jIn, jNow)
  /\ UNCHANGED <<users, jConf, jIn, jNow, jUser, jUsers0, flowVars>>

\* TapisOAuth2Backend().authenticate(request, access_token=jIn)
JwtAuthenticate ==
  /\ jPc = "input"
  /\ LET a == authenticate(users, jConf, jIn, jNow) IN
       /\ jUser' = a.user
       /\ users' = a.users
  /\ jPc' = "authenticated"
  /\ UNCHANGED <<jConf, jIn, jNow, jInfo, jUsers0, flowVars>>

JwtNext == JwtValidate \/ JwtAuthenticate

SpecJwt == JwtInit /\ [][JwtNext]_vars


Init ==
  /\ FlowInit
  /\ users = {}
  /\ jConf = TRUE
  /\ JwtIdle

\* concurrent workers and every answer of the provider; the clock jumps past
\* the lifetime of a state
Next ==
  \/ \E c \in RequestClientIds, r \in RedirectParams : Authorize(c, r, MaxStates)
  \/ \E p \in Procs, e \in ErrorParams, c \in CodeParams,
        s \in StateParams(MaxStates) : CbValidate(p, e, c, s)
  \/ \E p \in Procs, td \in TokenDatas : CbExchange(p, td)
  \/ \E p \in Procs : CbAuthenticate(p)
  \/ \E p \in Procs : CbLogin(p)
  \/ \E p \in Procs : CbStore(p, PyAbsent, PyNone)
  \/ \E p \in Procs : CbStoreInsert(p)
  \/ \E p \in Procs : CbDiscoverCheck(p)
  \/ \E p \in Procs : CbDiscoverDispatch(p, "queued", NoRemote, {})
  \/ \E p \in Procs : CbFinish(p)
  \/ \E p \in Procs : CbReset(p)
  \/ Tick(StateTTL + 1)

Spec == Init /\ [][Next]_vars

\* one worker; the clock ticks minute by minute
SeqNext ==
  \/ \E c \in RequestClientIds : Authorize(c, PyNone, SeqMaxStates)
  \/ \E e \in ErrorParams, c \in CodeParams, s \in StateParams(SeqMaxStates) :
       CbValidate(1, e, c, s)
  \/ \E td \in FlowTokenDatas : CbExchange(1, td)
  \/ CbAuthenticate(1)
  \/ CbLogin(1)
  \/ \E ei \in {PyNone, PyStr("soon")} : CbStore(1, PyAbsent, ei)
  \/ CbStoreInsert(1)
  \/ CbDiscoverCheck(1)
  \/ CbDiscoverDispatch(1, "error", NoRemote, {})
  \/ CbFinish(1)
  \/ CbReset(1)
  \/ Tick(1)

SpecSeq == Init /\ [][SeqNext]_vars

\* an access token the provider issues on refresh
RefreshedJwt == TokStr(<<SegOpaque, SegOpaque, SegOpaque>>)
RefreshAnswers ==
  {PyNone,
   NewTokenData(RefreshedJwt, PyAbsent, PyAbsent, PyNone),
   NewTokenData(RefreshedJwt, PyStr("mac"), PyStr("r2"), PyInt(120)),
   NewTokenData(RefreshedJwt, PyAbsent, PyAbsent, PyStr("soon"))}

\* callbacks that succeed, interleaved with refreshes and revocations
TokNext ==
  \/ Authorize("demo", PyNone, TokMaxStates)
  \/ \E p \in Procs, s \in 1..TokMaxStates :
       CbValidate(p, PyNone, PyStr("c0de"), StateVal(s))
  \/ \E p \in Procs, u \in Usernames : CbExchange(p, TokenData(JwtFor(u)))
  \/ \E p \in Procs : CbAuthenticate(p)
  \/ \E p \in Procs : CbLogin(p)
  \/ \E p \in Procs, rt \in {PyStr("r1"), PyAbsent} : CbStore(p, rt, PyNone)
  \/ \E p \in Procs : CbStoreInsert(p)
  \/ \E p \in Procs : CbDiscoverCheck(p)
  \/ \E p \in Procs : CbDiscoverDispatch(p, "queued", NoRemote, {})
  \/ \E p \in Procs : CbFinish(p)
  \/ \E p \in Procs : CbReset(p)
  \/ \E u \in Usernames : RefreshGet(u, "demo")
  \/ \E d \in RefreshAnswers : RefreshSave(d)
  \/ \E u \in Usernames : RevokeGet(u, "demo")
  \/ RevokeDelete

SpecTokens == Init /\ [][TokNext]_vars

\* logins of two users, each worker once, interleaved with refreshes,
\* revocations and status requests
RevNext ==
  \/ Authorize("demo", PyNone, TokMaxStates)
  \/ \E p \in Procs, s \in 1..TokMaxStates :
       CbValidate(p, PyNone, PyStr("c0de"), StateVal(s))
  \/ \E p \in Procs, u \in Usernames : CbExchange(p, TokenData(JwtFor(u)))
  \/ \E p \in Procs : CbAuthenticate(p)
  \/ \E p \in Procs : CbLogin(p)
  \/ \E p \in Procs : CbStore(p, PyStr("r1"), PyNone)
  \/ \E p \in Procs : CbStoreInsert(p)
  \/ \E p \in Procs : CbDiscoverCheck(p)
  \/ \E p \in Procs : CbDiscoverDispatch(p, "queued", NoRemote, {})
  \/ \E p \in Procs : CbFinish(p)
  \/ \E u \in Usernames : RefreshGet(u, "demo")
  \/ \E d \in {PyNone, NewTokenData(RefreshedJwt, PyAbsent, PyAbsent, PyNone)} :
       RefreshSave(d)
  \/ \E u \in Usernames : RevokeGet(u, "demo")
  \/ RevokeDelete
  \/ \E u \in Usernames : Status(u)

SpecRevoke == Init /\ [][RevNext]_vars

(***************************************************************************)
(* Logins that trigger discovery                                           *)
(***************************************************************************)
\* logins of one user by concurrent workers; the task queue works, is
\* missing or refuses; the user changes the preferences; hours pass
DiscNext ==
  \/ Authorize("demo", PyNone, DiscMaxStates)
  \/ \E p \in Procs, n \in 1..DiscMaxStates :
       CbValidate(p, PyNone, PyStr("c0de"), StateVal(n))
  \/ \E p \in Procs : CbExchange(p, TokenData(JwtFor("alice")))
  \/ \E p \in Procs : CbAuthenticate(p)
  \/ \E p \in Procs : CbLogin(p)
  \/ \E p \in Procs, ei \in {PyNone, PyStr("soon")} : CbStore(p, PyAbsent, ei)
  \/ \E p \in Procs : CbStoreInsert(p)
  \/ \E p \in Procs : CbDiscoverCheck(p)
  \/ \E p \in Procs, d \in DispatchOutcomes :
       CbDiscoverDispatch(p, d, OneFlightRemote, {})
  \/ \E p \in Procs : CbFinish(p)
  \/ \E j \in jobs : JobRun(j, OneFlightRemote, {})
  \/ \E ah \in PrefsBodies : PrefsPost("alice", ah[1], ah[2])
  \/ PrefsPostSave
  \/ Hours(1)

SpecDisc == Init /\ [][DiscNext]_vars

(***************************************************************************)
(* Validity of stored tokens: one stored row, looked at by the status view *)
(***************************************************************************)
\* access tokens a row can hold: '' (a refresh answered with an empty token)
\* and token strings
StoredAccessTokens == {EmptyStr, JwtFor("alice"), RefreshedJwt}
StoredExpiries == {NoTime} \cup {At(t) : t \in 0..MaxTime}

ValidInit ==
  /\ now \in 0..MaxTime
  /\ users = {UserRow("alice", "")}
  /\ \E at \in StoredAccessTokens, e \in StoredExpiries :
       tokenRows = {TokenRow(1, "alice", "demo", at, PyStr("r1"), e)}
  /\ nextPk = 2
  /\ stateRows = {} /\ nextState = 1 /\ authz = NoAuthz
  /\ cb = [p \in Procs |-> Idle]
  /\ consumed = {} /\ used = {}
  /\ ApiInit
  /\ jConf = TRUE
  /\ JwtIdle

ValidNext == \E u \in Usernames : Status(u)

SpecValid == ValidInit /\ [][ValidNext]_vars

(***************************************************************************)
(* Repeated discovery: two users with valid tokens, no project yet         *)
(***************************************************************************)
ScanInit ==
  /\ now = 0
  /\ users = {UserRow(u, "") : u \in Usernames}
  /\ tokenRows = {TokenRow(1, "alice", "demo", JwtFor("alice"), PyStr("r1"), NoTime),
                  TokenRow(2, "bob", "demo", JwtFor("bob"), PyStr("r1"), NoTime)}
  /\ nextPk = 3
  /\ stateRows = {} /\ nextState = 1 /\ authz = NoAuthz
  /\ cb = [p \in Procs |-> Idle]
  /\ consumed = {} /\ used = {}
  /\ ApiInit
  /\ jConf = TRUE
  /\ JwtIdle

ScanNext ==
  \E u \in Usernames, remote \in ScanRemotes, fails \in ScanFails :
    Discover(u, "demo", remote, fails)

SpecScan == ScanInit /\ [][ScanNext]_vars

(***************************************************************************)
(* The cleanup task between authorize requests and callbacks               *)
(***************************************************************************)
SweepNext ==
  \/ Authorize("demo", PyNone, SeqMaxStates)
  \/ \E s \in 1..SeqMaxStates : CbValidate(1, PyNone, PyStr("c0de"), StateVal(s))
  \/ CbReset(1)
  \/ CleanupExpired
  \/ Tick(1)

SpecSweep == Init /\ [][SweepNext]_vars

(***************************************************************************)
(* wait_for_db with every --timeout and every outcome of connecting        *)
(***************************************************************************)
WaitNext ==
  \/ \E timeout \in 0..MaxTimeoutOption : WaitHandle(timeout)
  \/ \E outcome \in {"ok", "OperationalError"} : WaitAttempt(outcome)
  \/ WaitSleep
  \/ WaitLeave
  \/ WaitElapse

SpecWait == Init /\ [][WaitNext]_vars

(***************************************************************************)
(* Discovery passes and create_projects requests of two users              *)
(***************************************************************************)
\* bodies of create_projects: auto_discover; the match of flight 'a' as the
\* discover endpoint lists it, once and with flight 'A'; a flight_info with
\* the two names only; no flight
CreateBodies ==
  {CreateBody(TRUE, <<>>),
   CreateBody(FALSE, <<FlightInfo(<<"a">>, SysOne.chars, 1)>>),
   CreateBody(FALSE, <<FlightInfo(<<"a">>, SysOne.chars, 1),
                       FlightInfo(<<"A">>, SysOne.chars, 1)>>),
   CreateBody(FALSE, <<[k |-> "flight", flight_name |-> <<"a">>,
                        system_id |-> SysOne.chars]>>),
   CreateBody(FALSE, <<>>)}

CreateNext ==
  \/ \E u \in Usernames, fails \in ScanFails :
       Discover(u, "demo", OneFlightRemote, fails)
  \/ \E u \in Usernames, body \in CreateBodies :
       CreateProjects(u, "demo", body, OneFlightRemote)

SpecCreate == ScanInit /\ [][CreateNext]_vars

(***************************************************************************)
(* One discovery pass over a remote hierarchy drawn from a bounded set     *)
(***************************************************************************)
\* a listing of <flight>/code/images/ has at most MaxPictures entries
MaxPictures == 2

\* the system ids the systems query returns start with 'ptdatax.project'
SysX == PyText(PtdataxProject \o <<".", "x">>)
SysY == PyText(PtdataxProject \o <<".", "y">>)

\* entries of an images listing: pictures in upper and lower case, a file
\* that is no picture, a directory named like a picture
PictureEntries ==
  {Entry("file", PyText(<<"a", ".", "J", "P", "G">>)),
   Entry("file", PyText(<<"b">> \o DotJpeg)),
   Entry("file", PyText(<<"c", ".", "p", "n", "g">>)),
   Entry("dir", PyText(<<"d">> \o DotJpg))}

SeqsUpTo(S, n) == UNION {[1..m -> S] : m \in 0..n}

ImagesListings == {Fail} \cup {Listing(l) : l \in SeqsUpTo(PictureEntries, MaxPictures)}

\* listings of <flight>/code/: failed, empty, a file named 'images', a
\* directory named 'Images', a directory named 'images' after another one
CodeListings ==
  {Fail, Listing(<<>>),
   Listing(<<Entry("file", PyText(ImagesName))>>),
   Listing(<<Entry("dir", PyText(<<"I">> \o Tail(ImagesName)))>>),
   Listing(<<Entry("dir", PyText(<<"x">>)), Entry("dir", PyText(ImagesName))>>)}

\* top-level entries named 'a': directories of every shape, a file, and a
\* directory without a name
TopShapes ==
  {TopEntry("dir", PyText(<<"a">>), c, i) : c \in CodeListings, i \in ImagesListings}
  \cup {[FlightDir(<<"a">>) EXCEPT !.type = "file"],
        [FlightDir(<<"a">>) EXCEPT !.name = PyText(<<>>)]}

\* the neighbours of such an entry: a flight, and a directory whose code
\* listing fails
Neighbours == {FlightDir(<<"b">>), [FlightDir(<<"b">>) EXCEPT !.code = Fail]}

\* names of a flight directory that a file system allows: the words of the
\* tag list, a name with a comma, with a blank in front, with the prefix of
\* the system ids, and one with a dot and a dash
OddNames ==
  {TapisWord, FlightWord, <<"a", ",", "b">>, <<" ", "a">>,
   PtdataxProject \o <<"z">>, <<"a", ".", "b", "-", "c">>}
\* one system with one flight directory of that name
OneNamed(name) == Remote(Listing(<<System(SysX, Listing(<<FlightDir(name)>>))>>))

ProbeRoots ==
  {Fail}
  \cup {Listing(<<e>>) : e \in TopShapes}
  \cup {Listing(<<e, b>>) : e \in TopShapes, b \in Neighbours}
  \cup {Listing(<<b, e>>) : e \in TopShapes, b \in Neighbours}

\* one system; a system after one whose root listing fails or that has no
\* id; a system before a system with one flight; no answer to the query
ProbeRemotes ==
  {Remote(Fail)}
  \cup {Remote(Listing(<<System(SysX, r)>>)) : r \in ProbeRoots}
  \cup {Remote(Listing(<<System(SysY, Fail), System(SysX, r)>>)) : r \in ProbeRoots}
  \cup {Remote(Listing(<<System(PyNone, Listing(<<FlightDir(<<"b">>)>>)),
                         System(SysX, r)>>)) : r \in ProbeRoots}
  \cup {Remote(Listing(<<System(SysX, r),
                         System(SysY, Listing(<<FlightDir(<<"a">>)>>))>>)) :
          r \in ProbeRoots}
  \cup {OneNamed(name) : name \in OddNames}

ProbeInit ==
  /\ now = 0
  /\ users = {UserRow(u, "") : u \in Usernames}
  /\ tokenRows = {TokenRow(1, "alice", "demo", JwtFor("alice"), PyStr("r1"), NoTime)}
  /\ nextPk = 2
  /\ stateRows = {} /\ nextState = 1 /\ authz = NoAuthz
  /\ cb = [p \in Procs |-> Idle]
  /\ consumed = {} /\ used = {}
  /\ rf = NoRequest /\ rv = NoRequest /\ statusResp = NoStatus
  /\ prefs = [u \in Usernames |-> NoPrefs]
  /\ jobs = {} /\ projects = <<>> /\ scanRuns = <<>>
  /\ pp = NoPrefsRequest /\ sweeps = <<>> /\ wdb = NoWait
  /\ disc = [p \in Procs |-> NoDisc]
  /\ \E remote \in ProbeRemotes : probe = [pc |-> "input", remote |-> remote]
  /\ jConf = TRUE
  /\ JwtIdle

\* TapisFlightDiscoveryService.discover_and_create_projects(user, client)
\* over the hierarchy handed in: the flights it found and its results
ProbeDiscover(u, client_id) ==
  /\ probe.pc = "input"
  /\ HasUser(users, u)
  /\ ClientFound(client_id)
  /\ LET results == discover_and_create_projects(projects, tokenRows, u,
                                                 client_id, now, probe.remote, {})
     IN /\ results.k = "ok"
        /\ projects' = results.v.projects
        /\ probe' = [pc |-> "done", remote |-> probe.remote, user |-> u,
                     all_flights |->
                       AllFlights(discover_project_systems(probe.remote.systems)),
                     results |-> results.v.results]
  /\ UNCHANGED <<now, users, jConf, stateRows, nextState, tokenRows, nextPk,
                 authz, cb, consumed, used, rf, rv, statusResp, prefs, jobs,
                 scanRuns, pp, disc, sweeps,
                 wdb, jwtVars>>

\* the values of max_projects_per_discovery a preferences request carries
MaxProjectsBodies == {0, 1, 2}

\* TapisUserPreferencesView.post with max_projects_per_discovery alone in
\* the body, before the pass: the row is fetched or created; a value below 1
\* is refused (400) before anything else is saved
PrefsPostMax(u, max_projects) ==
  /\ probe.pc = "input"
  /\ HasUser(users, u)
  /\ LET preferences == get_or_create_for_user(prefs, u) IN
     prefs' = [prefs EXCEPT ![u] =
                 IF max_projects < 1 THEN preferences
                 ELSE [preferences EXCEPT
                         !.max_projects_per_discovery = max_projects]]
  /\ UNCHANGED <<now, users, jConf, stateRows, nextState, tokenRows, nextPk,
                 authz, cb, consumed, used, rf, rv, statusResp, jobs, projects,
                 scanRuns, probe, pp, disc, sweeps,
                 wdb, jwtVars>>

\* sync_all_flight_projects(user_id, client_id) as far as it reads the tags:
\* for every flight project of the user, the system_id and flight_name it
\* takes from project.tags
ProbeSync(u, client_id) ==
  /\ probe.pc = "done"
  /\ HasUser(users, u)
  /\ ClientFound(client_id)
  /\ HasValidToken(tokenRows, u, client_id, now)
  /\ probe' = [pc |-> "synced", remote |-> probe.remote, user |-> probe.user,
               all_flights |-> probe.all_flights, results |-> probe.results,
               read |-> [k \in {k \in 1..Len(projects) :
                                  /\ projects[k].owner = u
                                  /\ IContains(projects[k].tags, TapisWord)}
                           |-> ParseTags(projects[k].tags)]]
  /\ UNCHANGED <<now, users, jConf, stateRows, nextState, tokenRows, nextPk,
                 authz, cb, consumed, used, rf, rv, statusResp, prefs, jobs,
                 projects, scanRuns, pp, disc, sweeps,
                 wdb, jwtVars>>

ProbeNext ==
  \/ ProbeDiscover("alice", "demo")
  \/ ProbeSync("alice", "demo")
  \/ \E max_projects \in MaxProjectsBodies : PrefsPostMax("alice", max_projects)

SpecProbe == ProbeInit /\ [][ProbeNext]_vars

(***************************************************************************)
(* Properties of the callback and its state store                          *)
(***************************************************************************)
Started(p) == cb[p].pc # "AWAITING_CODE"
\* the request of worker p got as far as the lookup of its state value
LookedUp(p) == Started(p) /\ ~cb[p].hadError /\ cb[p].hadCode /\ Truthy(cb[p].param)
\* the request of worker p neither exchanged a code nor logged anybody in
NothingDone(p) ==
  /\ cb[p].st = NoRow /\ cb[p].raw = PyAbsent /\ cb[p].user = PyNone
  /\ ~cb[p].session /\ ~cb[p].stored

\* C1: once a callback has completed successfully with a state value, no row
\* of that value is left, and every callback that carries the value
\* afterwards is refused with HTTP 400 without exchanging a code or
\* establishing a session; when it carries a code and no error parameter the
\* refusal is 'Invalid OAuth2 state'.
C1_ConsumedStateIsGone ==
  /\ \A s \in consumed : StateMatches(stateRows, s) = {}
  /\ \A p \in Procs :
       cb[p].afterSuccess =>
         /\ cb[p].pc = "FAILED"
         /\ cb[p].resp.status = 400
         /\ NothingDone(p)
         /\ LookedUp(p) => cb[p].resp = JsonError(400, "Invalid OAuth2 state")
C1_Witness ==
  \E p \in Procs :
    /\ cb[p].afterSuccess /\ LookedUp(p)
    /\ cb[p].resp = JsonError(400, "Invalid OAuth2 state")

\* C2: of two callbacks that carry the same state value and are handled at
\* the same time, at most one ends with the session established and the
\* redirect issued.
C2_OneConcurrentCallbackWins ==
  \A p, q \in Procs :
    (p # q /\ cb[p].pc = "DONE" /\ cb[q].pc = "DONE")
      => cb[p].st.state # cb[q].st.state

\* C3: a state value that passed validation in a callback that has ended
\* (in success or in failure) does not pass validation again.
C3_StateValidatedOnce ==
  \A p \in Procs :
    cb[p].st # NoRow => (~cb[p].afterSuccess /\ ~cb[p].afterFailure)

\* C4: a callback that finds the row of its state value accepts it when the
\* clock is before created + 10 minutes and refuses it as expired when the
\* clock is at created + 10 minutes or later.
C4_ExpiresAtTenMinutes ==
  \A p \in Procs :
    LookedUp(p) =>
      /\ cb[p].when = "before" => cb[p].st # NoRow
      /\ cb[p].when \in {"at", "after"} =>
           /\ cb[p].pc = "FAILED"
           /\ cb[p].resp = JsonError(400, "OAuth2 state expired")

\* the response of a refused callback, by the first check that refuses it
C5_Responses ==
  \A p \in Procs :
    Started(p) =>
      /\ cb[p].hadError =>
           cb[p].pc = "FAILED" /\ cb[p].resp = JsonError(400, "OAuth2 error")
      /\ (~cb[p].hadError /\ (~cb[p].hadCode \/ ~Truthy(cb[p].param))) =>
           /\ cb[p].pc = "FAILED"
           /\ cb[p].resp = JsonError(400, "Missing code or state parameter")
      /\ (LookedUp(p) /\ cb[p].when = "none") =>
           /\ cb[p].pc = "FAILED"
           /\ cb[p].resp = JsonError(400, "Invalid OAuth2 state")
      /\ (LookedUp(p) /\ cb[p].when = "after") =>
           /\ cb[p].pc = "FAILED"
           /\ cb[p].resp = JsonError(400, "OAuth2 state expired")
           /\ StateLookup(stateRows, cb[p].param) = {}
      /\ cb[p].st = NoRow => (cb[p].pc = "FAILED" /\ NothingDone(p))

\* what a refused callback does to the stores, step by step
C5_Frame ==
  \A p \in Procs :
    (cb[p].pc = "AWAITING_CODE" /\ cb'[p].pc = "FAILED") =>
      /\ tokenRows' = tokenRows
      /\ users' = users
      /\ IF cb'[p].resp.error = "OAuth2 state expired"
           THEN stateRows' = stateRows \ StateLookup(stateRows, cb'[p].param)
           ELSE stateRows' = stateRows

\* C5: the callback refuses with HTTP 400, before any token exchange and in
\* this order, (1) a non-empty error parameter, (2) a missing or empty code
\* or state, (3) a state value that no row matches, (4) a state value whose
\* row is expired, which it deletes; in cases (1) to (3) the state store is
\* unchanged; in no case is a session established or a token row written.
C5_RejectionOrder == []C5_Responses /\ [][C5_Frame]_vars
C5_Witness ==
  /\ cb[1].pc = "FAILED"
  /\ cb[1].resp = JsonError(400, "OAuth2 state expired")
  /\ stateRows # {}

\* how far a request has come
Rank(pc) ==
  CASE pc = "AWAITING_CODE"       -> 0
    [] pc = "STATE_VALIDATED"     -> 1
    [] pc = "TOKEN_EXCHANGED"     -> 2
    [] pc = "USER_AUTHENTICATED"  -> 3
    [] pc = "SESSION_ESTABLISHED" -> 4
    [] pc = "STORE_INSERT"        -> 5
    [] pc = "TOKENS_STORED"       -> 6
    [] pc = "DONE"                -> 7
    [] OTHER                      -> 8

\* access tokens that name a user
GoodRaw == {JwtFor(u) : u \in Usernames} \cup {Nested(JwtFor(u)) : u \in Usernames}

C6_Forward ==
  \A p \in Procs :
    cb'[p] # cb[p] =>
      \/ cb[p].pc \in {"DONE", "FAILED"} /\ cb'[p] = Idle
      \/ cb'[p].pc = "FAILED" /\ Rank(cb[p].pc) < 4
      \/ Rank(cb'[p].pc) = Rank(cb[p].pc) + 1
      \/ cb[p].pc = "SESSION_ESTABLISHED" /\ cb'[p].pc = "TOKENS_STORED"

C6_SessionNeedsAllSteps ==
  \A p \in Procs :
    /\ cb[p].session =>
         /\ Rank(cb[p].pc) \in 4..7
         /\ cb[p].st # NoRow /\ LookedUp(p) /\ cb[p].when \in {"before", "at"}
         /\ cb[p].raw \in GoodRaw
         /\ Truthy(cb[p].user)
    /\ cb[p].stored => cb[p].session
    /\ cb[p].pc = "FAILED" => (~cb[p].session /\ ~cb[p].stored)
    /\ Rank(cb[p].pc) \in 4..7 => cb[p].session

IsPlain(raw)     == raw.k = "tstr"
IsNestedJwt(raw) == HasAccessToken(raw) /\ raw.access_token.k = "tstr"

\* the request of worker p has been through lines 113-126
Extracted(p) ==
  \/ Rank(cb[p].pc) \in 3..7
  \/ cb[p].pc = "FAILED" /\ cb[p].failedAt = "TOKEN_EXCHANGED"

\* C8: when the access token of the payload is neither a plain string nor an
\* object {access_token: <string>}, or is missing, the callback answers 500,
\* establishes no session and stores no token.
C8_OtherShapesGet500 ==
  \A p \in Procs :
    (Extracted(p) /\ ~IsPlain(cb[p].raw) /\ ~IsNestedJwt(cb[p].raw)) =>
      /\ cb[p].pc = "FAILED"
      /\ cb[p].resp.status = 500
      /\ ~cb[p].session /\ ~cb[p].stored

\* C7: the token table never holds two rows of the same (user, client), however
\* callbacks, refreshes and revocations interleave.
C7_OneRowPerUserClient ==
  \A r1, r2 \in tokenRows :
    (r1.user = r2.user /\ r1.client = r2.client) => r1 = r2
\* two callbacks have stored tokens and one primary key was handed out: the
\* second callback overwrote the row of the first
C7_Witness ==
  /\ \E p, q \in Procs : p # q /\ cb[p].stored /\ cb[q].stored
                           /\ cb[p].user = cb[q].user
  /\ nextPk = 2
  /\ Cardinality(tokenRows) = 1

(***************************************************************************)
(* Properties of the decoder                                               *)
(***************************************************************************)
\* the token has three segments and its second segment is a JSON object
Decodable(tok) ==
  /\ tok.k = "tstr" /\ Len(tok.segs) = 3
  /\ tok.segs[2].k = "json" /\ tok.segs[2].v.k = "obj"

RECURSIVE FirstNonEmpty(_)
FirstNonEmpty(claims) ==
  IF claims = <<>> THEN PyNone
  ELSE IF Truthy(Head(claims)) THEN Head(claims)
  ELSE FirstNonEmpty(Tail(claims))

\* the username the claims resolve to, PyNone when none does
Resolved(payload) ==
  FirstNonEmpty(<<payload.tapis_username, payload.username, payload.sub>>)

\* the expiry claim is an integer earlier than the clock
InPast(exp, current_time) == exp.k = "int" /\ exp.n < current_time

\* C9: a decodable token whose exp claim is absent or an integer yields an
\* identity exactly when a username resolves from tapis/username, username,
\* sub (in that order) and exp is not earlier than the clock; the identity
\* carries the resolved username; every integer exp earlier than the clock is
\* rejected.
C9_IdentityIffResolvedAndFresh ==
  (jPc = "validated" /\ Decodable(jIn) /\ jIn.segs[2].v.exp.k \in {"none", "int"})
    => LET payload == jIn.segs[2].v IN
       IF Truthy(Resolved(payload)) /\ ~InPast(payload.exp, jNow)
         THEN /\ jInfo.k = "ok" /\ jInfo.v.k = "info"
              /\ jInfo.v.username = Resolved(payload)
         ELSE jInfo = Ok(PyNone)

\* the token is a string that does not have three segments, or whose second
\* segment is not base64url-encoded JSON
Malformed(tok) ==
  /\ tok.k = "tstr"
  /\ \/ Len(tok.segs) # 3
     \/ tok.segs[2].k # "json"

\* C10: decoding a malformed token returns no identity and raises nothing;
\* authenticate returns no user and leaves the User table as it was.
C10_MalformedTokenNoIdentity ==
  Malformed(jIn) =>
    /\ jPc = "validated" => jInfo = Ok(PyNone)
    /\ jPc = "authenticated" => (jUser = PyNone /\ users = jUsers0)
\* a token of two segments whose second segment names a user and carries no
\* expiry has been through authenticate with the provider configured
C10_Witness ==
  /\ jPc = "authenticated" /\ jConf
  /\ jIn.k = "tstr" /\ Len(jIn.segs) = 2
  /\ jIn.segs[2].k = "json" /\ jIn.segs[2].v.k = "obj"
  /\ Truthy(UsernameOf(jIn.segs[2].v)) /\ jIn.segs[2].v.exp = PyNone
  /\ ~HasUser(jUsers0, UsernameOf(jIn.segs[2].v).s)

(***************************************************************************)
(* Properties of the token row                                             *)
(***************************************************************************)
\* C11: is_valid of a token row is false when expires_at is earlier than the
\* clock; when expires_at is null it is true exactly when the access token is
\* not empty.
C11_IsValid ==
  \A info \in statusResp.tokens :
    \A r \in tokenRows :
      (r.user = statusResp.user /\ r.client = info.client_id) =>
        /\ (r.expires_at.k = "time" /\ r.expires_at.t < now)
             => ~Truthy(info.is_valid)
        /\ r.expires_at = NoTime
             => (Truthy(info.is_valid) <=> r.access_token # EmptyStr)
\* the status view has listed a row that holds a token and expired earlier
C11_Witness ==
  \E info \in statusResp.tokens :
    \E r \in tokenRows :
      /\ r.user = statusResp.user /\ r.client = info.client_id
      /\ r.expires_at.k = "time" /\ r.expires_at.t < now
      /\ r.access_token # EmptyStr

(***************************************************************************)
(* Properties of the discovery trigger                                     *)
(***************************************************************************)
\* the scanner was invoked by the login of worker p: a job was handed to the
\* queue or the scanner was called in the request
Invoked(p) == disc[p].mode \in {"async", "sync"}

\* auto-discovery is enabled and the cooldown has run out at clock t
CooldownOver(row, t) ==
  /\ row.auto_discover_on_login
  /\ \/ row.last_auto_discovery = NoTime
     \/ t - row.last_auto_discovery.t >= 60 * row.discovery_cooldown_hours

\* C12: should_run_auto_discovery is true exactly when auto_discover_on_login
\* is set and last_auto_discovery is unset or at least discovery_cooldown_hours
\* hours back; a login invokes the scanner only when it was true.
C12_ShouldRunIffCooldownOver ==
  \A p \in Procs :
    disc[p].pc # "idle" =>
      /\ disc[p].should <=> CooldownOver(disc[p].seen, disc[p].at)
      /\ Invoked(p) => disc[p].should
      /\ ~disc[p].should => (disc[p].pc = "done" /\ disc[p].mode = "none")
\* a login has dispatched discovery exactly discovery_cooldown_hours after the
\* last one
C12_Witness ==
  \E p \in Procs :
    /\ Invoked(p) /\ disc[p].should
    /\ disc[p].seen.last_auto_discovery # NoTime
    /\ disc[p].seen.discovery_cooldown_hours > 0
    /\ disc[p].at - disc[p].seen.last_auto_discovery.t
         = 60 * disc[p].seen.discovery_cooldown_hours

\* C13: whenever a login invokes discovery, by handing the job to the queue or
\* by running the scanner in the request, last_auto_discovery has been set by
\* the time the trigger is over, whether the scan succeeded or failed.
C13_TimestampUpdatedWhateverTheOutcome ==
  \A p \in Procs :
    (disc[p].pc = "done" /\ Invoked(p)) =>
      /\ disc[p].updated
      /\ prefs[cb[p].user.s] # NoPrefs
      /\ prefs[cb[p].user.s].last_auto_discovery # NoTime

\* C14: whenever the preferences permit discovery and the hand-over to the
\* queue fails, because the task module cannot be imported or because the
\* dispatch call raises, the scanner is run in the request.
C14_AnyDispatchFailureFallsBack ==
  \A p \in Procs :
    (disc[p].pc = "done" /\ disc[p].should
       /\ disc[p].dispatch \in {"ImportError", "error"}) =>
      disc[p].mode = "sync"

\* C15: after a login has handed a discovery job of a user to the queue at
\* time t, no login of that user that checks the cooldown afterwards and
\* before t + discovery_cooldown_hours invokes discovery, whatever became of
\* the job.
C15_DispatchCountsAgainstCooldown ==
  \A p \in Procs :
    (/\ disc[p].pc # "idle"
     /\ disc[p].prior # NoTime
     /\ disc[p].at < disc[p].prior.t + 60 * disc[p].seen.discovery_cooldown_hours)
      => (~disc[p].should /\ ~Invoked(p))

\* the stored last_auto_discovery of user u, NoTime when u has no row
StoredLast(table, u) ==
  IF table[u] = NoPrefs THEN NoTime ELSE table[u].last_auto_discovery

\* C16: nothing serialises the cooldown check and the timestamp update: the
\* step in which a login passes should_run_auto_discovery leaves the stored
\* last_auto_discovery as it was, so that a second login of the same user can
\* pass the check before the first one has written the timestamp.
C16_CheckLeavesTimestamp ==
  [][\A p \in Procs :
       (disc[p].pc = "idle" /\ disc'[p].pc = "DISPATCH") =>
         /\ StoredLast(prefs', cb[p].user.s) = StoredLast(prefs, cb[p].user.s)
         /\ \A q \in Procs \ {p} :
              (cb[q].pc = "TOKENS_STORED" /\ disc[q].pc = "idle"
                 /\ cb[q].user = cb[p].user)
                => should_run_auto_discovery(
                     get_or_create_for_user(prefs', cb[q].user.s), now)]_vars
\* two logins of one user have both passed the check on the same stored
\* timestamp and have both invoked discovery, less than one cooldown apart
C16_Witness ==
  \E p, q \in Procs :
    /\ p # q
    /\ cb[p].user = cb[q].user
    /\ disc[p].pc = "done" /\ disc[q].pc = "done"
    /\ Invoked(p) /\ Invoked(q)
    /\ disc[p].should /\ disc[q].should
    /\ disc[p].seen = disc[q].seen
    /\ disc[p].seen.discovery_cooldown_hours > 0
    /\ disc[q].at - disc[p].at < 60 * disc[p].seen.discovery_cooldown_hours
    /\ disc[p].at - disc[q].at < 60 * disc[p].seen.discovery_cooldown_hours

\* the rows other than the one with primary key pk
OtherRows(rows, pk) == {r \in rows : r.pk # pk}

\* C17: a refresh request changes the caller's token row only when the
\* provider call succeeds: with no row (404), an empty stored refresh token
\* (400) or a failed provider call (500) the token rows are as before; on
\* success the access token, the token type and the expiry of the row are the
\* response's, the refresh token is the response's when it has one and the
\* row's own otherwise, and nothing else is changed.
C17_RefreshFrame ==
  [][rf' # rf =>
       /\ rf'.status # 200 => tokenRows' = tokenRows
       /\ rf.pc = "idle" =>
            LET m == TokenMatches(tokenRows, rf'.user, rf'.client) IN
            /\ m = {} => rf'.status = 404
            /\ (m # {} /\ \A r \in m : ~Truthy(r.refresh_token)) => rf'.status = 400
            /\ rf'.pc = "REFRESHING" =>
                 (rf'.token_obj \in m /\ Truthy(rf'.token_obj.refresh_token))
       /\ (rf.pc = "REFRESHING" /\ ~Truthy(rf'.answer)) => rf'.status = 500
       /\ rf'.status = 200 =>
            LET old == rf'.loaded
                new_token_data == rf'.answer
            IN /\ rf.pc = "REFRESHING" /\ old = rf.token_obj
               /\ OtherRows(tokenRows', old.pk) = OtherRows(tokenRows, old.pk)
               /\ \E w \in tokenRows' :
                    /\ w.pk = old.pk /\ w.user = old.user /\ w.client = old.client
                    /\ w.access_token = new_token_data.access_token
                    /\ w.token_type = IF new_token_data.token_type.k = "absent"
                                        THEN DefaultTokenType
                                        ELSE new_token_data.token_type
                    /\ w.expires_at = ExpiresAt(new_token_data.expires_in, now)
                    /\ w.refresh_token =
                         IF new_token_data.refresh_token.k = "absent"
                           THEN old.refresh_token
                           ELSE new_token_data.refresh_token]_vars
\* a refresh whose response had no refresh_token has succeeded: the row has
\* the new access token and the refresh token it had
C17_Witness ==
  /\ rf.pc = "idle" /\ rf.status = 200
  /\ rf.answer.refresh_token.k = "absent"
  /\ \E w \in tokenRows :
       /\ w.pk = rf.loaded.pk
       /\ w.access_token = RefreshedJwt
       /\ rf.loaded.access_token # RefreshedJwt
       /\ w.refresh_token = PyStr("r1")

\* the last revoke request answered was a successful one of u for client c,
\* and no token row of (u, c) is stored
RevokedAndGone(u, c) ==
  /\ rv.pc = "idle" /\ rv.status = 200 /\ rv.user = u /\ rv.client = c
  /\ TokenMatches(tokenRows, u, c) = {}

\* in this step a callback of user u for client c stores its tokens
CallbackStores(u, c) ==
  \E p \in Procs :
    /\ cb[p].pc \in {"SESSION_ESTABLISHED", "STORE_INSERT"}
    /\ cb'[p].pc = "TOKENS_STORED"
    /\ cb[p].user.s = u /\ cb[p].st.client = c

\* the rows of the other (user, client) pairs
RowsOfOthers(rows, u, c) == {r \in rows : ~(r.user = u /\ r.client = c)}

\* C18: a successful revoke of u for client c leaves no token row of (u, c)
\* and the rows of every other pair as they were; from then on, until a
\* callback of (u, c) stores tokens again, no row of (u, c) appears, a further
\* revoke or refresh of (u, c) answers 404, status lists no token of c for u
\* and the storage service of (u, c) cannot be constructed.
C18_RevokedUntilNextCallback ==
  [][/\ (rv.pc = "REVOKING" /\ rv'.status = 200) =>
          /\ TokenMatches(tokenRows', rv'.user, rv'.client) = {}
          /\ RowsOfOthers(tokenRows', rv'.user, rv'.client)
               = RowsOfOthers(tokenRows, rv'.user, rv'.client)
     /\ \A u \in Usernames, c \in ActiveClientIds :
          RevokedAndGone(u, c) =>
            /\ ~HasValidToken(tokenRows, u, c, now)
            /\ TokenMatches(tokenRows', u, c) # {} => CallbackStores(u, c)
            /\ (rf' # rf /\ rf.pc = "idle" /\ rf'.user = u /\ rf'.client = c)
                 => rf'.status = 404
            /\ (rv' # rv /\ rv'.user = u /\ rv'.client = c) => rv'.status = 404
            /\ (statusResp' # statusResp /\ statusResp'.user = u)
                 => \A t \in statusResp'.tokens : t.client_id # c]_vars

\* C19: an authorize request for an active client adds exactly one state row,
\* bound to that client, expiring StateTTL minutes after its creation and
\* holding the requested redirect target ('/dashboard/' when none was
\* requested), and redirects to that client's authorization URL with the
\* state value of the row; a request for an unknown or inactive client
\* answers 500 and adds no row.
C19_AuthorizePersistsOneState ==
  [][authz' # authz =>
       IF authz'.client_id \in ActiveClientIds
         THEN /\ authz'.status = 302
              /\ authz'.client = authz'.client_id
              /\ \E row \in stateRows' :
                   /\ row \notin stateRows
                   /\ stateRows' = stateRows \cup {row}
                   /\ \A r \in stateRows : r.state # row.state
                   /\ row.state = authz'.state
                   /\ row.client = authz'.client_id
                   /\ row.created_at = now
                   /\ row.expires_at = now + 10
                   /\ row.redirect_after_auth =
                        IF authz'.redirect_after = PyNone
                          THEN "/dashboard/" ELSE authz'.redirect_after.s
         ELSE /\ authz'.status = 500
              /\ stateRows' = stateRows]_vars
\* an authorize request without redirect_after has stored its state row, and
\* the last request, for a client that is not active, was answered 500
C19_Witness ==
  /\ authz.status = 500
  /\ authz.client_id \notin ActiveClientIds
  /\ \E row \in stateRows :
       /\ row.client \in ActiveClientIds
       /\ row.redirect_after_auth = "/dashboard/"
       /\ row.expires_at = row.created_at + 10

\* the projects a pass has created: the rows it appended to the table
CreatedBy(run) ==
  {run.after[k] : k \in (Len(run.before) + 1)..Len(run.after)}

\* the projects of owner u in a table
OwnedBy(table, u) == {table[k] : k \in {m \in 1..Len(table) : table[m].owner = u}}

\* C20: when discover_and_create_projects is run again for the same owner
\* over the same remote hierarchy, the later pass creates no project whose
\* system_id and flight_name tags are those of a project the owner already
\* has; when every creation of the earlier pass succeeded, the later pass
\* reports projects_created = 0 and leaves the owner's projects as they were.
C20_DiscoveryIdempotent ==
  \A i, j \in 1..Len(scanRuns) :
    (i < j /\ scanRuns[i].user = scanRuns[j].user
           /\ scanRuns[i].remote = scanRuns[j].remote) =>
      LET first == scanRuns[i]
          again == scanRuns[j]
      IN /\ Len(again.after) >= Len(again.before)
         /\ SubSeq(again.after, 1, Len(again.before)) = again.before
         /\ \A row \in CreatedBy(again) :
              row \notin OwnedBy(again.before, again.user)
         /\ first.fails = {} =>
              /\ again.created = 0
              /\ OwnedBy(again.after, again.user) = OwnedBy(again.before, again.user)
              /\ again.after = again.before
\* a pass has created projects for two flights and a second pass of the same
\* owner over the same hierarchy has created none
C20_Witness ==
  \E i, j \in 1..Len(scanRuns) :
    /\ i < j
    /\ scanRuns[i].user = scanRuns[j].user
    /\ scanRuns[i].remote = scanRuns[j].remote
    /\ scanRuns[i].fails = {}
    /\ scanRuns[i].created = 2
    /\ scanRuns[j].created = 0
    /\ Cardinality(OwnedBy(scanRuns[j].after, scanRuns[j].user)) = 2


(***************************************************************************)
(* Properties of the scanner                                               *)
(***************************************************************************)
\* the name ends with the suffix when case is ignored, character by character
EndsWithIgnoringCase(chars, suffix) ==
  /\ Len(chars) >= Len(suffix)
  /\ \A k \in 1..Len(suffix) :
       Lower(<<chars[Len(chars) - Len(suffix) + k]>>) = <<suffix[k]>>

\* the positions of the pictures in the listing of <top>/code/images/
Pictures(top) ==
  {j \in 1..Len(top.images.items) :
     /\ top.images.items[j].type = "file"
     /\ \/ EndsWithIgnoringCase(top.images.items[j].name.chars, DotJpg)
        \/ EndsWithIgnoringCase(top.images.items[j].name.chars, DotJpeg)}

\* <top>/code/ lists a directory 'images' and <top>/code/images/ lists a picture
HasPictures(top) ==
  /\ top.code.ok
  /\ \E i \in 1..Len(top.code.items) :
       top.code.items[i] = Entry("dir", PyText(ImagesName))
  /\ top.images.ok
  /\ Pictures(top) # {}

\* the systems the pass scans: the answer of the query, those with an id
ScannedSystems(remote) ==
  IF remote.systems.ok
    THEN {s \in 1..Len(remote.systems.items) : Truthy(remote.systems.items[s].id)}
    ELSE {}

\* the top-level directories of a scanned system whose root could be listed
TopDirs(remote, s) ==
  LET root == remote.systems.items[s].root IN
  IF root.ok
    THEN {i \in 1..Len(root.items) :
            root.items[i].type = "dir" /\ Truthy(root.items[i].name)}
    ELSE {}

Reported(flight_info) ==
  \E k \in 1..Len(probe.all_flights) : probe.all_flights[k] = flight_info

\* C21: the scanner reports a match for a top-level directory exactly when
\* its code listing has a directory 'images' and the listing of code/images
\* has a file ending in .jpg or .jpeg in any case; the match carries the
\* number of such files as image_count
C21_MatchIffPictures ==
  probe.pc = "done" =>
    \A s \in ScannedSystems(probe.remote) :
      \A i \in TopDirs(probe.remote, s) :
        LET system == probe.remote.systems.items[s]
            top == system.root.items[i]
        IN /\ HasPictures(top) <=>
                \E k \in 1..Len(probe.all_flights) :
                  /\ probe.all_flights[k].flight_name = top.name.chars
                  /\ probe.all_flights[k].system_id = system.id.chars
           /\ HasPictures(top) =>
                Reported(FlightInfo(top.name.chars, system.id.chars,
                                    Cardinality(Pictures(top))))
\* a directory whose only picture is a.JPG is reported with image_count 1, next
\* to a directory without a code listing
C21_Witness ==
  /\ probe.pc = "done"
  /\ probe.remote.systems.ok
  /\ \E s \in ScannedSystems(probe.remote) :
       \E i, j \in TopDirs(probe.remote, s) :
         LET root == probe.remote.systems.items[s].root IN
         /\ root.items[i].images =
              Listing(<<Entry("file", PyText(<<"a", ".", "J", "P", "G">>))>>)
         /\ HasPictures(root.items[i])
         /\ ~root.items[j].code.ok
         /\ probe.all_flights =
              <<FlightInfo(<<"a">>, probe.remote.systems.items[s].id.chars, 1)>>


\* the top-level directories with pictures, over all scanned systems
Matches(remote) ==
  {<<s, i>> \in ScannedSystems(remote) \X (1..2) :
     /\ i \in TopDirs(remote, s)
     /\ HasPictures(remote.systems.items[s].root.items[i])}

\* some listing of the hierarchy failed: a system's root, a code directory or
\* an images directory
SomeListingFailed(remote) ==
  \E s \in ScannedSystems(remote) :
    LET root == remote.systems.items[s].root IN
    \/ ~root.ok
    \/ \E i \in TopDirs(remote, s) :
         ~root.items[i].code.ok \/ ~root.items[i].images.ok

\* C22: a listing that fails for one system or one directory does not end the
\* pass: every other directory with pictures is still counted in
\* flights_discovered and has its project at the end
C22_FailedListingDoesNotAbort ==
  (probe.pc = "done" /\ SomeListingFailed(probe.remote)) =>
    /\ probe.results.flights_discovered = Cardinality(Matches(probe.remote))
    /\ probe.results.projects_created = Cardinality(Matches(probe.remote))
    /\ \A m \in Matches(probe.remote) :
         LET system == probe.remote.systems.items[m[1]]
             top == system.root.items[m[2]]
         IN \E k \in 1..Len(projects) :
              projects[k] =
                ProjectRow(probe.user,
                           TagsOf(FlightInfo(top.name.chars, system.id.chars,
                                             Cardinality(Pictures(top)))))
\* the root of the first system cannot be listed, nor the code directory of
\* the first directory of the second system; the directory after it is found
C22_Witness ==
  /\ probe.pc = "done"
  /\ probe.remote.systems.ok
  /\ Len(probe.remote.systems.items) = 2
  /\ ~probe.remote.systems.items[1].root.ok
  /\ probe.remote.systems.items[2].root.ok
  /\ Len(probe.remote.systems.items[2].root.items) = 2
  /\ ~probe.remote.systems.items[2].root.items[1].code.ok
  /\ Matches(probe.remote) = {<<2, 2>>}
  /\ Len(projects) = 1


\* C23: every system whose scan failed, its root listing raising, has an
\* entry in the 'errors' of the results of the pass
C23_FailedScanIsInErrors ==
  probe.pc = "done" =>
    \A s \in ScannedSystems(probe.remote) :
      LET system == probe.remote.systems.items[s] IN
      ~system.root.ok
        => \E k \in 1..Len(probe.results.errors) :
             Contains(probe.results.errors[k], system.id.chars)


\* C24: a discovery pass creates at most as many projects as the
\* max_projects_per_discovery of the user's preferences
C24_AtMostMaxProjects ==
  probe.pc = "done" =>
    probe.results.projects_created
      <= get_or_create_for_user(prefs, probe.user).max_projects_per_discovery


\* C25: for every project the pass created from a match, reading its tags
\* gives back the system_id and the flight_name of the match
C25_TagsRoundTrip ==
  probe.pc = "synced" =>
    \A k \in 1..Len(projects), j \in 1..Len(probe.all_flights) :
      (projects[k].owner = probe.user
       /\ projects[k].tags = TagsOf(probe.all_flights[j]))
        => /\ k \in DOMAIN probe.read
           /\ probe.read[k] =
                [system_id |-> PyText(probe.all_flights[j].system_id),
                 flight_name |-> PyText(probe.all_flights[j].flight_name)]


(***************************************************************************)
(* Properties of the token row a callback leaves                           *)
(***************************************************************************)
\* C26: after a successful callback the access_token of the row of
\* (user, client) is the bare token string the user was authenticated with,
\* whether the provider sent it plain or nested one level
C26_StoredIsBareToken ==
  \A p \in Procs :
    (cb[p].pc = "DONE" /\ cb[p].stored) =>
      \A r \in TokenMatches(tokenRows, cb[p].user.s, cb[p].st.client) :
        r.access_token = ExtractJwt(cb[p].raw)

\* C27: a callback that ends in success leaves a token row of (user, client)
C27_SuccessHasTokenRow ==
  \A p \in Procs :
    cb[p].pc = "DONE" =>
      TokenMatches(tokenRows, cb[p].user.s, cb[p].st.client) # {}


(***************************************************************************)
(* Properties of the Project table                                         *)
(***************************************************************************)
\* C28: no two projects of one owner carry the same system_id and
\* flight_name in their tags, whatever discovery passes and create_projects
\* requests have run
C28_NoDuplicateFlightProject ==
  \A i, j \in 1..Len(projects) :
    (i # j /\ projects[i].owner = projects[j].owner)
      => projects[i].tags # projects[j].tags


(***************************************************************************)
(* Properties of the cleanup task                                          *)
(***************************************************************************)
\* the callback carrying the state of the row, at clock t over the table
\* rows, answers 'OAuth2 state expired'
RejectedAsExpired(rows, row, t) ==
  CallbackChecks(PyNone, PyStr("c0de"), StateVal(row.state), rows, t) = "expired"

\* C29: a run of the cleanup task deletes the state rows whose expires_at is
\* earlier than the clock and no other, and each row it deletes is one the
\* callback would reject as expired at that moment; at every moment a row
\* the task would delete is one the callback rejects
C29_SweepDeletesOnlyExpired ==
  /\ \A k \in 1..Len(sweeps) :
       /\ sweeps[k].after \subseteq sweeps[k].before
       /\ \A r \in sweeps[k].before :
            r \notin sweeps[k].after <=> r.expires_at < sweeps[k].at
       /\ \A r \in sweeps[k].before \ sweeps[k].after :
            RejectedAsExpired(sweeps[k].before, r, sweeps[k].at)
  /\ \A r \in stateRows :
       r.expires_at < now => RejectedAsExpired(stateRows, r, now)
\* a run that deleted an expired row and kept the row that expires at this
\* very minute
C29_Witness ==
  \E k \in 1..Len(sweeps) :
    /\ \E r \in sweeps[k].before : r \notin sweeps[k].after
    /\ \E r \in sweeps[k].after : r.expires_at = sweeps[k].at


(***************************************************************************)
(* Properties of wait_for_db                                               *)
(***************************************************************************)
Wrote(msg) == wdb.pc # "idle" /\ \E i \in 1..Len(wdb.out) : wdb.out[i] = msg

\* C30: 'Database available!' is reported only after a connection attempt
\* has succeeded, and a command that returns without a successful attempt
\* has reported 'Database unavailable after N seconds'
C30_AvailableOnlyAfterSuccess ==
  /\ Wrote("Database available!") =>
       \E k \in 1..Len(wdb.attempts) : wdb.attempts[k] = "ok"
  /\ (wdb.pc = "returned"
      /\ \A k \in 1..Len(wdb.attempts) : wdb.attempts[k] # "ok")
       => Wrote("Database unavailable after N seconds")

====
